---- MODULE Spec2Model ----
(***************************************************************************)
(* A model of the UTS #46 processor of source/common/uts46.cpp.            *)
(*                                                                         *)
(* Strings are sequences of UTF-16 code units (integers).  The source's    *)
(* indices are 0-based; At(s, i) reads the code unit at 0-based index i.   *)
(* Bit sets (info.errors, the options word, the bidi masks) are sets of    *)
(* bit names / bit numbers: | is \cup, & is \cap and ~ is the complement.  *)
(***************************************************************************)
EXTENDS Integers, Sequences, FiniteSets, TLC

\* ------------------------------------------------------------------------
\* UnicodeString helpers
\* ------------------------------------------------------------------------

At(s, i) == s[i + 1]

Min(a, b) == IF a < b THEN a ELSE b

Max(a, b) == IF a > b THEN a ELSE b

\* s.tempSubString(start, length); start and length are pinned to the string
TempSubString(s, start, length) ==
    LET st == Min(Max(start, 0), Len(s))
        ln == Min(Max(length, 0), Len(s) - st)
    IN  SubSeq(s, st + 1, st + ln)


\* s.tempSubString(start): everything from start on
Tail0(s, start) == SubSeq(s, start + 1, Len(s))

\* UnicodeString::replace(start, length, text); as in UnicodeString, start and
\* length are pinned to the string's bounds.

StrReplace(s, start, length, text) ==
    LET st == Min(Max(start, 0), Len(s))
        ln == Min(Max(length, 0), Len(s) - st)
    IN  SubSeq(s, 1, st) \o text \o SubSeq(s, st + ln + 1, Len(s))

\* UnicodeString::insert(start, c)
StrInsert(s, start, c) == StrReplace(s, start, 0, <<c>>)

\* UnicodeString::remove(start, length)
StrRemove(s, start, length) == StrReplace(s, start, length, <<>>)

\* s with the code unit at 0-based index i set to c (a write through UChar *s)
Poke(s, i, c) == [s EXCEPT ![i + 1] = c]

\* n copies of the code unit c
Rep(c, n) == [k \in 1..n |-> c]

RECURSIVE Concat(_)
Concat(ss) == IF ss = <<>> THEN <<>> ELSE Head(ss) \o Concat(Tail(ss))

\* ------------------------------------------------------------------------
\* UTF-16
\* ------------------------------------------------------------------------

U16_IS_LEAD(c) == c >= 55296 /\ c <= 56319

U16_IS_TRAIL(c) == c >= 56320 /\ c <= 57343

U_IS_SURROGATE(c) == c >= 55296 /\ c <= 57343

U16_GET_SUPPLEMENTARY(lead, trail) == (lead - 55296) * 1024 + (trail - 56320) + 65536

\* U16_NEXT_UNSAFE(s, i, c): the code point at 0-based index i and the index
\* after it.  "Unsafe": a lead surrogate takes the next unit unchecked.
U16NextUnsafe(s, i) ==
    IF U16_IS_LEAD(At(s, i)) /\ i + 1 < Len(s)
    THEN [c |-> U16_GET_SUPPLEMENTARY(At(s, i), At(s, i + 1)), i |-> i + 2]
    ELSE [c |-> At(s, i), i |-> i + 1]

\* U16_PREV_UNSAFE(s, i, c): the code point before 0-based index i and its index.
U16PrevUnsafe(s, i) ==
    IF U16_IS_TRAIL(At(s, i - 1)) /\ i - 2 >= 0
    THEN [c |-> U16_GET_SUPPLEMENTARY(At(s, i - 2), At(s, i - 1)), i |-> i - 2]
    ELSE [c |-> At(s, i - 1), i |-> i - 1]

\* the code points of a UTF-16 string; an unpaired surrogate stands for itself
CodePoints(s) ==
    LET second(k) == k > 1 /\ U16_IS_TRAIL(s[k]) /\ U16_IS_LEAD(s[k - 1])
        idx == SelectSeq([k \in 1..Len(s) |-> k], LAMBDA k : ~second(k))
    IN  [j \in 1..Len(idx) |->
            IF U16_IS_LEAD(s[idx[j]]) /\ idx[j] < Len(s) /\ U16_IS_TRAIL(s[idx[j] + 1])
            THEN U16_GET_SUPPLEMENTARY(s[idx[j]], s[idx[j] + 1])
            ELSE s[idx[j]]]

\* the UTF-16 code units of one code point
U16Units(c) ==
    IF c < 65536 THEN <<c>>
    ELSE <<55296 + ((c - 65536) \div 1024), 56320 + ((c - 65536) % 1024)>>

\* the UTF-16 string of a sequence of code points
RECURSIVE FromCodePoints(_)
FromCodePoints(cps) ==
    IF \A k \in 1..Len(cps) : cps[k] < 65536 THEN cps
    ELSE IF Len(cps) = 1 THEN U16Units(cps[1])
    ELSE FromCodePoints(SubSeq(cps, 1, Len(cps) \div 2))
         \o FromCodePoints(SubSeq(cps, (Len(cps) \div 2) + 1, Len(cps)))

\* ------------------------------------------------------------------------
\* Punycode (u_strToPunycode / u_strFromPunycode, RFC 3492 with the
\* Bootstring parameters of Punycode; no case flags).
\* ------------------------------------------------------------------------

PUNY_BASE == 36

PUNY_TMIN == 1

PUNY_TMAX == 26

PUNY_SKEW == 38

PUNY_DAMP == 700

PUNY_INITIAL_BIAS == 72

PUNY_INITIAL_N == 128

PUNY_DELIMITER == 45

INT32_MAX == 2147483647

RECURSIVE AdaptLoop(_, _)
AdaptLoop(delta, count) ==
    IF delta > ((PUNY_BASE - PUNY_TMIN) * PUNY_TMAX) \div 2
    THEN AdaptLoop(delta \div (PUNY_BASE - PUNY_TMIN), count + PUNY_BASE)
    ELSE count + (((PUNY_BASE - PUNY_TMIN + 1) * delta) \div (delta + PUNY_SKEW))

AdaptBias(delta, length, firstTime) ==
    LET d == IF firstTime THEN delta \div PUNY_DAMP ELSE delta \div 2
    IN  AdaptLoop(d + (d \div length), 0)

Threshold(k, bias) ==
    IF k - bias < PUNY_TMIN THEN PUNY_TMIN
    ELSE IF k >= bias + PUNY_TMAX THEN PUNY_TMAX
    ELSE k - bias

\* 0..25 -> a..z, 26..35 -> 0..9
DigitToBasic(d) == IF d < 26 THEN 97 + d ELSE 48 + (d - 26)

\* a..z and A..Z -> 0..25, 0..9 -> 26..35, anything else -> -1
BasicToDigit(c) ==
    IF c >= 97 /\ c <= 122 THEN c - 97
    ELSE IF c >= 65 /\ c <= 90 THEN c - 65
    ELSE IF c >= 48 /\ c <= 57 THEN c - 48 + 26
    ELSE -1

RECURSIVE EncodeVarInt(_, _, _)
EncodeVarInt(q, k, bias) ==
    LET t == Threshold(k, bias)
    IN  IF q < t THEN <<DigitToBasic(q)>>
        ELSE <<DigitToBasic(t + ((q - t) % (PUNY_BASE - t)))>>
             \o EncodeVarInt((q - t) \div (PUNY_BASE - t), k + PUNY_BASE, bias)

\* the encoder's step for the code point at j
EncodeStep(cps, j, st, basicLength) ==
    IF cps[j] < st.n
    THEN [st EXCEPT !.delta = @ + 1]
    ELSE IF cps[j] = st.n
    THEN [st EXCEPT !.out = @ \o EncodeVarInt(st.delta, PUNY_BASE, st.bias),
                    !.bias = AdaptBias(st.delta, st.handled + 1,
                                       st.handled = basicLength),
                    !.delta = 0,
                    !.handled = @ + 1]
    ELSE st

\* the encoder's pass over the code points from..to, run in two halves: the
\* first half is evaluated before the second starts
RECURSIVE EncodePass(_, _, _, _, _)
EncodePass(cps, from, to, st, basicLength) ==
    IF from > to THEN st
    ELSE IF from = to THEN EncodeStep(cps, from, st, basicLength)
    ELSE LET half == EncodePass(cps, from, (from + to) \div 2, st, basicLength)
         IN  IF half = half
             THEN EncodePass(cps, ((from + to) \div 2) + 1, to, half, basicLength)
             ELSE half

SetMin(S) == CHOOSE m \in S : \A x \in S : m <= x

RECURSIVE EncodeMain(_, _, _)
EncodeMain(cps, st, basicLength) ==
    IF st.handled >= Len(cps) THEN st.out
    ELSE LET m   == SetMin({cps[j] : j \in {x \in 1..Len(cps) : cps[x] >= st.n}})
             st1 == [st EXCEPT !.delta = @ + (m - st.n) * (st.handled + 1), !.n = m]
             st2 == EncodePass(cps, 1, Len(cps), st1, basicLength)
         IN  EncodeMain(cps, [st2 EXCEPT !.delta = @ + 1, !.n = @ + 1], basicLength)

\* u_strToPunycode(src): the basic code points, a delimiter if there are any,
\* then the deltas of the other code points.  The result is ASCII.
StrToPunycode(src) ==
    LET cps   == CodePoints(src)
        basic == SelectSeq(cps, LAMBDA c : c < 128)
        b     == Len(basic)
        out0  == IF b > 0 THEN basic \o <<PUNY_DELIMITER>> ELSE basic
    IN  EncodeMain(cps, [n |-> PUNY_INITIAL_N, delta |-> 0, bias |-> PUNY_INITIAL_BIAS,
                         handled |-> b, out |-> out0], b)

\* for(j=srcLength; j>0;) if(src[--j]==DELIMITER) break;
LastDelimiter(src) ==
    LET found == {j \in 0..(Len(src) - 1) : At(src, j) = PUNY_DELIMITER}
    IN  IF found = {} THEN 0 ELSE CHOOSE j \in found : \A x \in found : x <= j

PunyFail == [ok |-> FALSE, str |-> <<>>]

RECURSIVE DecodeVarInt(_, _, _, _, _, _)
DecodeVarInt(src, in, i, w, k, bias) ==
    IF in >= Len(src) THEN [ok |-> FALSE, i |-> 0, in |-> in]
    ELSE LET digit == BasicToDigit(At(src, in))
             t     == Threshold(k, bias)
         IN  IF digit < 0 \/ digit > (INT32_MAX - i) \div w
             THEN [ok |-> FALSE, i |-> 0, in |-> in]
             ELSE IF digit < t THEN [ok |-> TRUE, i |-> i + digit * w, in |-> in + 1]
             ELSE IF w > INT32_MAX \div (PUNY_BASE - t)
             THEN [ok |-> FALSE, i |-> 0, in |-> in]
             ELSE DecodeVarInt(src, in + 1, i + digit * w, w * (PUNY_BASE - t),
                               k + PUNY_BASE, bias)

RECURSIVE DecodeMain(_, _, _)
DecodeMain(src, in, st) ==
    IF in >= Len(src) THEN [ok |-> TRUE, str |-> FromCodePoints(st.out)]
    ELSE LET r == DecodeVarInt(src, in, st.i, 1, PUNY_BASE, st.bias)
             cnt == Len(st.out) + 1
             n2  == st.n + (r.i \div cnt)
             i2  == r.i % cnt
         IN  IF ~r.ok THEN PunyFail
             ELSE IF (r.i \div cnt) > INT32_MAX - st.n THEN PunyFail
             ELSE IF n2 > 1114111 \/ U_IS_SURROGATE(n2) THEN PunyFail
             ELSE DecodeMain(src, r.in,
                     [n    |-> n2,
                      i    |-> i2 + 1,
                      bias |-> AdaptBias(r.i - st.i, cnt, st.i = 0),
                      out  |-> SubSeq(st.out, 1, i2) \o <<n2>>
                               \o SubSeq(st.out, i2 + 1, Len(st.out))])

\* u_strFromPunycode(src): [ok, str]; ok is FALSE on any decoding error.
StrFromPunycode(src) ==
    LET j == LastDelimiter(src)
    IN  IF \E x \in 1..j : src[x] >= 128 THEN PunyFail
        ELSE DecodeMain(src, IF j > 0 THEN j + 1 ELSE 0,
                        [n |-> PUNY_INITIAL_N, i |-> 0, bias |-> PUNY_INITIAL_BIAS,
                         out |-> SubSeq(src, 1, j)])

\* ------------------------------------------------------------------------
\* Bit words
\* ------------------------------------------------------------------------

\* bitwise OR and AND of two non-negative integers (UChar oredChars)
RECURSIVE OrBits(_, _)
OrBits(a, b) ==
    IF a = 0 THEN b
    ELSE IF b = 0 THEN a
    ELSE (IF a % 2 = 1 \/ b % 2 = 1 THEN 1 ELSE 0) + 2 * OrBits(a \div 2, b \div 2)

RECURSIVE AndBits(_, _)
AndBits(a, b) ==
    IF a = 0 \/ b = 0 THEN 0
    ELSE (IF a % 2 = 1 /\ b % 2 = 1 THEN 1 ELSE 0) + 2 * AndBits(a \div 2, b \div 2)

\* a uint32_t mask as the set of its bit numbers
U_MASK(x) == {x}

BitOr(a, b) == a \cup b

BitAnd(a, b) == a \cap b

BitNot(a) == (0..31) \ a

\* the C value of (a == b)
BitEq(a, b) == IF a = b THEN {0} ELSE {}

\* ------------------------------------------------------------------------
\* Code units named in the source
\* ------------------------------------------------------------------------

HYPHEN == 45

DOT == 46

SMALL_S == 115

SHARP_S == 223

FINAL_SIGMA == 962

SIGMA == 963

ZWNJ == 8204

ZWJ == 8205

REPLACEMENT == 65533

\* "xn--"
ACE_PREFIX == <<120, 110, 45, 45>>

\* ------------------------------------------------------------------------
\* The Unicode character database and the normalizers, for the code points
\* the model knows.  Every other non-ASCII code point is disallowed by UTS #46
\* (the uts46 normalizer maps it to U+FFFD).
\* ------------------------------------------------------------------------

U_DIAERESIS_CAP == 220

U_DIAERESIS == 252

COMBINING_DIAERESIS == 776

SMALL_U == 117

HEBREW_ALEF == 1488

ARABIC_ALEF == 1575

ARABIC_BEH == 1576

ARABIC_ZERO == 1632

VIRAMA == 2381

KHAROSHTHI_SIGN_I == 68097

\* valid or deviation under UTS #46: the uts46 normalizer passes these through
ValidNonASCII ==
    {SHARP_S, FINAL_SIGMA, SIGMA, ZWNJ, ZWJ, U_DIAERESIS, COMBINING_DIAERESIS,
     HEBREW_ALEF, ARABIC_ALEF, ARABIC_BEH, ARABIC_ZERO, VIRAMA, KHAROSHTHI_SIGN_I}

\* general category M (Mn, Mc, Me)
IsMark(c) == c \in {COMBINING_DIAERESIS, VIRAMA, KHAROSHTHI_SIGN_I}

\* u_getCombiningClass
GetCombiningClass(c) ==
    IF c = VIRAMA THEN 9
    ELSE IF c = COMBINING_DIAERESIS THEN 230
    ELSE 0

\* UCharDirection
U_LEFT_TO_RIGHT == 0

U_RIGHT_TO_LEFT == 1

U_EUROPEAN_NUMBER == 2

U_EUROPEAN_NUMBER_SEPARATOR == 3

U_EUROPEAN_NUMBER_TERMINATOR == 4

U_ARABIC_NUMBER == 5

U_COMMON_NUMBER_SEPARATOR == 6

U_WHITE_SPACE_NEUTRAL == 9

U_OTHER_NEUTRAL == 10

U_RIGHT_TO_LEFT_ARABIC == 13

U_DIR_NON_SPACING_MARK == 17

U_BOUNDARY_NEUTRAL == 18

\* u_charDirection
CharDirection(c) ==
    IF (c >= 97 /\ c <= 122) \/ (c >= 65 /\ c <= 90) THEN U_LEFT_TO_RIGHT
    ELSE IF c >= 48 /\ c <= 57 THEN U_EUROPEAN_NUMBER
    ELSE IF c \in {43, 45} THEN U_EUROPEAN_NUMBER_SEPARATOR
    ELSE IF c \in {35, 36, 37} THEN U_EUROPEAN_NUMBER_TERMINATOR
    ELSE IF c \in {44, 46, 47, 58} THEN U_COMMON_NUMBER_SEPARATOR
    ELSE IF c = 32 THEN U_WHITE_SPACE_NEUTRAL
    ELSE IF c < 32 \/ c = 127 THEN U_BOUNDARY_NEUTRAL
    ELSE IF c < 128 THEN U_OTHER_NEUTRAL
    ELSE IF c \in {SHARP_S, FINAL_SIGMA, SIGMA, U_DIAERESIS, U_DIAERESIS_CAP}
    THEN U_LEFT_TO_RIGHT
    ELSE IF c = HEBREW_ALEF THEN U_RIGHT_TO_LEFT
    ELSE IF c \in {ARABIC_ALEF, ARABIC_BEH} THEN U_RIGHT_TO_LEFT_ARABIC
    ELSE IF c = ARABIC_ZERO THEN U_ARABIC_NUMBER
    ELSE IF c \in {COMBINING_DIAERESIS, VIRAMA, KHAROSHTHI_SIGN_I}
    THEN U_DIR_NON_SPACING_MARK
    ELSE IF c \in {ZWNJ, ZWJ} THEN U_BOUNDARY_NEUTRAL
    ELSE IF c = REPLACEMENT THEN U_OTHER_NEUTRAL
    ELSE U_LEFT_TO_RIGHT

\* UJoiningType, as u_getIntPropertyValue(c, UCHAR_JOINING_TYPE) gives it
JoiningType(c) ==
    IF c = ARABIC_ALEF THEN "R"
    ELSE IF c = ARABIC_BEH THEN "D"
    ELSE IF c = ZWJ THEN "C"
    ELSE IF c \in {COMBINING_DIAERESIS, VIRAMA, KHAROSHTHI_SIGN_I} THEN "T"
    ELSE "U"

\* the UTS #46 mapping of one code point
Uts46MapCodePoint(c) ==
    IF c >= 65 /\ c <= 90 THEN c + 32
    ELSE IF c < 128 THEN c
    ELSE IF c \in ValidNonASCII THEN c
    ELSE IF c = U_DIAERESIS_CAP THEN U_DIAERESIS
    ELSE REPLACEMENT

MapCodePoints(cps) == [k \in 1..Len(cps) |-> Uts46MapCodePoint(cps[k])]

\* canonical composition: u + U+0308 composes to U+00FC
Compose(cps) ==
    LET composed(k) == k > 1 /\ cps[k] = COMBINING_DIAERESIS /\ cps[k - 1] = SMALL_U
        idx == SelectSeq([k \in 1..Len(cps) |-> k], LAMBDA k : ~composed(k))
    IN  [j \in 1..Len(idx) |->
            IF cps[idx[j]] = SMALL_U /\ idx[j] < Len(cps)
                                    /\ cps[idx[j] + 1] = COMBINING_DIAERESIS
            THEN U_DIAERESIS
            ELSE cps[idx[j]]]

\* nfcNorm2.normalize(src)
NfcNormalize(src) == FromCodePoints(Compose(CodePoints(src)))

\* uts46Norm2.normalize(src): map, then compose
Uts46Normalize(src) == FromCodePoints(Compose(MapCodePoints(CodePoints(src))))

\* uts46Norm2.normalizeSecondAndAppend(first, second): first is normalized
\* already; the result is the normalization of the concatenation.
Uts46NormalizeSecondAndAppend(first, second) ==
    FromCodePoints(Compose(CodePoints(first) \o MapCodePoints(CodePoints(second))))

\* ------------------------------------------------------------------------
\* UTS #46 data for ASCII characters
\* ------------------------------------------------------------------------

\* A variant of the table with A-Z valid as they are.
asciiDataUppercaseValid(c) ==
    IF c = 45 \/ c = 46 THEN 0
    ELSE IF c >= 48 /\ c <= 57 THEN 0
    ELSE IF c >= 65 /\ c <= 90 THEN 0
    ELSE IF c >= 97 /\ c <= 122 THEN 0
    ELSE -1

\* A variant that takes the underscore for valid.
asciiDataUnderscoreValid(c) ==
    IF c = 45 \/ c = 46 \/ c = 95 THEN 0
    ELSE IF c >= 48 /\ c <= 57 THEN 0
    ELSE IF c >= 65 /\ c <= 90 THEN 1
    ELSE IF c >= 97 /\ c <= 122 THEN 0
    ELSE -1

\* asciiData[c]: -1 = disallowed, 0 = valid, 1 = mapped (lowercase)
asciiData(c) ==
    IF c = 45 \/ c = 46 THEN 0
    ELSE IF c >= 48 /\ c <= 57 THEN 0
    ELSE IF c >= 65 /\ c <= 90 THEN 1
    ELSE IF c >= 97 /\ c <= 122 THEN 0
    ELSE -1

\* ------------------------------------------------------------------------
\* isLabelOkBiDi.  The mask macros are defined without parentheses around
\* their bodies, so each use is written here as the preprocessor expands it:
\* ~ applies to the first U_MASK() of the expansion only, and & binds tighter
\* than the | that joins the rest.
\* ------------------------------------------------------------------------

\* #define L_MASK U_MASK(U_LEFT_TO_RIGHT)
L_MASK == U_MASK(U_LEFT_TO_RIGHT)

\* (firstMask&~L_R_AL_MASK)
\*   = firstMask&~U_MASK(L)|U_MASK(R)|U_MASK(AL)
AndNot_L_R_AL_MASK(m) ==
    BitOr(BitOr(BitAnd(m, BitNot(U_MASK(U_LEFT_TO_RIGHT))),
                U_MASK(U_RIGHT_TO_LEFT)),
          U_MASK(U_RIGHT_TO_LEFT_ARABIC))

\* (lastMask&~L_EN_MASK)
\*   = lastMask&~U_MASK(L)|U_MASK(EN)
AndNot_L_EN_MASK(m) ==
    BitOr(BitAnd(m, BitNot(U_MASK(U_LEFT_TO_RIGHT))), U_MASK(U_EUROPEAN_NUMBER))

\* (lastMask&~R_AL_EN_AN_MASK)
\*   = lastMask&~U_MASK(R)|U_MASK(AL)|U_MASK(EN)|U_MASK(AN)
AndNot_R_AL_EN_AN_MASK(m) ==
    BitOr(BitOr(BitOr(BitAnd(m, BitNot(U_MASK(U_RIGHT_TO_LEFT))),
                      U_MASK(U_RIGHT_TO_LEFT_ARABIC)),
                U_MASK(U_EUROPEAN_NUMBER)),
          U_MASK(U_ARABIC_NUMBER))

\* U_MASK(ES)|U_MASK(CS)|U_MASK(ET)|U_MASK(ON)|U_MASK(BN)|U_MASK(NSM)
ES_CS_ET_ON_BN_NSM_MASK ==
    BitOr(BitOr(BitOr(BitOr(BitOr(U_MASK(U_EUROPEAN_NUMBER_SEPARATOR),
                                  U_MASK(U_COMMON_NUMBER_SEPARATOR)),
                            U_MASK(U_EUROPEAN_NUMBER_TERMINATOR)),
                      U_MASK(U_OTHER_NEUTRAL)),
                U_MASK(U_BOUNDARY_NEUTRAL)),
          U_MASK(U_DIR_NON_SPACING_MARK))

\* (mask&~L_EN_ES_CS_ET_ON_BN_NSM_MASK)
\*   = mask&~U_MASK(L)|U_MASK(EN)|U_MASK(ES)|...|U_MASK(NSM)
AndNot_L_EN_ES_CS_ET_ON_BN_NSM_MASK(m) ==
    BitOr(BitOr(BitAnd(m, BitNot(U_MASK(U_LEFT_TO_RIGHT))), U_MASK(U_EUROPEAN_NUMBER)),
          ES_CS_ET_ON_BN_NSM_MASK)

\* (mask&~R_AL_AN_EN_ES_CS_ET_ON_BN_NSM_MASK)
\*   = mask&~U_MASK(R)|U_MASK(AL)|U_MASK(EN)|U_MASK(AN)|U_MASK(ES)|...|U_MASK(NSM)
AndNot_R_AL_AN_EN_ES_CS_ET_ON_BN_NSM_MASK(m) ==
    BitOr(AndNot_R_AL_EN_AN_MASK(m), ES_CS_ET_ON_BN_NSM_MASK)

\* (mask&EN_AN_MASK)==EN_AN_MASK
\*   = mask&U_MASK(EN)|U_MASK(AN)==U_MASK(EN)|U_MASK(AN)
\* and == binds tighter than & and |.
And_EN_AN_Equals_EN_AN(m) ==
    BitOr(BitOr(BitAnd(m, U_MASK(U_EUROPEAN_NUMBER)),
                BitEq(U_MASK(U_ARABIC_NUMBER), U_MASK(U_EUROPEAN_NUMBER))),
          U_MASK(U_ARABIC_NUMBER))

\* The "for(;;)" that finds the directionality of the last non-NSM character:
\* [lastMask, labelLength], labelLength moved back over what was read.
RECURSIVE BidiLastMask(_, _, _, _)
BidiLastMask(label, i, labelLength, firstMask) ==
    IF i >= labelLength THEN [lastMask |-> firstMask, labelLength |-> labelLength]
    ELSE LET p   == U16PrevUnsafe(label, labelLength)
             dir == CharDirection(p.c)
         IN  IF dir # U_DIR_NON_SPACING_MARK
             THEN [lastMask |-> U_MASK(dir), labelLength |-> p.i]
             ELSE BidiLastMask(label, i, p.i, firstMask)

\* The "while(i<labelLength)" that ORs the directionalities in between.
RECURSIVE BidiInterveningMask(_, _, _, _)
BidiInterveningMask(label, i, labelLength, mask) ==
    IF i >= labelLength THEN mask
    ELSE LET n == U16NextUnsafe(label, i)
         IN  BidiInterveningMask(label, n.i, labelLength,
                                 BitOr(mask, U_MASK(CharDirection(n.c))))

\* label is the buffer read through the label pointer: its first labelLength
\* units are the label (an empty label's first unit is read all the same).
isLabelOkBiDi(label, labelLength) ==
    LET first     == U16NextUnsafe(label, 0)
        firstMask == U_MASK(CharDirection(first.c))
        last      == BidiLastMask(label, first.i, labelLength, firstMask)
        mask      == BidiInterveningMask(label, first.i, last.labelLength, {})
    IN  IF AndNot_L_R_AL_MASK(firstMask) # {} THEN FALSE
        ELSE IF (IF BitAnd(firstMask, L_MASK) # {}
                 THEN AndNot_L_EN_MASK(last.lastMask) # {}
                 ELSE AndNot_R_AL_EN_AN_MASK(last.lastMask) # {})
        THEN FALSE
        ELSE IF BitAnd(firstMask, L_MASK) # {}
        THEN AndNot_L_EN_ES_CS_ET_ON_BN_NSM_MASK(mask) = {}
        ELSE IF AndNot_R_AL_AN_EN_ES_CS_ET_ON_BN_NSM_MASK(mask) # {} THEN FALSE
        ELSE And_EN_AN_Equals_EN_AN(mask) = {}

\* ------------------------------------------------------------------------
\* isLabelOkContextJ
\* ------------------------------------------------------------------------

\* check precontext (Joining_Type:{L,D})(Joining_Type:T)*, from the code point c
\* that was read before index j
RECURSIVE ContextJPre(_, _, _)
ContextJPre(label, j, c) ==
    IF JoiningType(c) = "T"
    THEN IF j = 0 THEN FALSE
         ELSE LET p == U16PrevUnsafe(label, j) IN ContextJPre(label, p.i, p.c)
    ELSE JoiningType(c) \in {"L", "D"}

\* check postcontext (Joining_Type:T)*(Joining_Type:{R,D}): the loop tests j,
\* which it never changes, and reads at i, which it advances.  [ok, i]; reading
\* at the end of the label ends the label's scan.
RECURSIVE ContextJPost(_, _, _)
ContextJPost(label, j, i) ==
    IF j = Len(label) THEN [ok |-> FALSE, i |-> i]
    ELSE IF i >= Len(label) THEN [ok |-> FALSE, i |-> i]
    ELSE LET n == U16NextUnsafe(label, i)
         IN  IF JoiningType(n.c) = "T" THEN ContextJPost(label, j, n.i)
             ELSE [ok |-> JoiningType(n.c) \in {"R", "D"}, i |-> n.i]

RECURSIVE ContextJFrom(_, _)
ContextJFrom(label, i) ==
    IF i >= Len(label) THEN TRUE
    ELSE IF At(label, i) = ZWNJ
    THEN IF i = 0 THEN FALSE
         ELSE LET p == U16PrevUnsafe(label, i)
              IN  IF GetCombiningClass(p.c) = 9 THEN ContextJFrom(label, i + 1)
                  ELSE IF ~ContextJPre(label, p.i, p.c) THEN FALSE
                  ELSE LET post == ContextJPost(label, i + 1, i)
                       IN  post.ok /\ ContextJFrom(label, post.i + 1)
    ELSE IF At(label, i) = ZWJ
    THEN IF i = 0 THEN FALSE
         ELSE LET p == U16PrevUnsafe(label, i)
              IN  GetCombiningClass(p.c) = 9 /\ ContextJFrom(label, i + 1)
    ELSE ContextJFrom(label, i + 1)

\* A variant whose scan starts at the second code unit.
isLabelOkContextJFromSecondUnit(label) == ContextJFrom(label, 1)

isLabelOkContextJ(label) == ContextJFrom(label, 0)

\* ------------------------------------------------------------------------
\* IDNAInfo, options, buffers
\* ------------------------------------------------------------------------

\* the UIDNA_ERROR_ bits of info.errors
ErrorBits ==
    {"EMPTY_LABEL", "LABEL_TOO_LONG", "DOMAIN_NAME_TOO_LONG", "LEADING_HYPHEN",
     "TRAILING_HYPHEN", "HYPHEN_3_4", "LEADING_COMBINING_MARK", "DISALLOWED",
     "PUNYCODE", "LABEL_HAS_DOT", "INVALID_ACE_LABEL", "BIDI", "CONTEXTJ"}

\* the UIDNA_ option bits
OptionBits ==
    {"USE_STD3_RULES", "CHECK_BIDI", "CHECK_CONTEXTJ",
     "NONTRANSITIONAL_TO_ASCII", "NONTRANSITIONAL_TO_UNICODE"}

\* IDNAInfo::reset()
InfoReset == [errors |-> {}, hasDevChars |-> FALSE]

\* info.errors|=e
AddError(info, e) == [info EXCEPT !.errors = @ \cup {e}]

AddErrorIf(info, cond, e) == IF cond THEN AddError(info, e) ELSE info

\* A read through a UChar pointer at 0-based index i of the buffer of string s.
\* Past the string's length the buffer holds whatever was left there: stale.
Rd(s, i, stale) == IF i >= 0 /\ i < Len(s) THEN s[i + 1] ELSE stale

\* A write through a UChar pointer: past the string's length it does not
\* change the string.
Wr(s, i, c) == IF i >= 0 /\ i < Len(s) THEN Poke(s, i, c) ELSE s

\* the code units label[0..length) read through label = buffer + start
View(s, start, length, stale) == [k \in 1..length |-> Rd(s, start + k - 1, stale)]

\* replaceLabel(): [dest, delta].  isDest is (&label==&dest).
replaceLabel(dest, destLabelStart, destLabelLength, isDest, label, labelLength) ==
    [dest  |-> IF isDest THEN dest
               ELSE StrReplace(dest, destLabelStart, destLabelLength, label),
     delta |-> labelLength - destLabelLength]

\* ------------------------------------------------------------------------
\* processLabel
\* ------------------------------------------------------------------------

\* The string labelString points to, in a processLabel context c:
\* c.ls is "dest", "fromPunycode" or "normalized"; c.str holds the latter two.
Cur(c) == IF c.ls = "dest" THEN c.dest ELSE c.str

SetCur(c, s) == IF c.ls = "dest" THEN [c EXCEPT !.dest = s] ELSE [c EXCEPT !.str = s]

\* One pass of the do-while over the code units after "xn--" of a label whose
\* Punycode decoding failed.  st = [dest, info, onlyLDH, s, ended].
PunycodeFailStep(st, limit, disallowNonLDHDot, stale) ==
    LET c   == Rd(st.dest, st.s, stale)
        st1 == IF c <= 127
               THEN IF c = DOT
                    THEN [st EXCEPT !.dest    = Wr(@, st.s, REPLACEMENT),
                                    !.info    = AddError(@, "LABEL_HAS_DOT"),
                                    !.onlyLDH = FALSE]
                    ELSE IF asciiData(c) < 0
                    THEN [st EXCEPT !.dest    = IF disallowNonLDHDot
                                                THEN Wr(@, st.s, REPLACEMENT) ELSE @,
                                    !.onlyLDH = FALSE]
                    ELSE st
               ELSE [st EXCEPT !.onlyLDH = FALSE]
    IN  IF st.ended THEN st
        ELSE [st1 EXCEPT !.s = @ + 1, !.ended = ~(st.s + 1 < limit)]

\* After that do-while, were the label never marked.
MarkPunycodeFailureUnmarked(st, labelStart, labelLength) ==
    [dest |-> st.dest, info |-> st.info, delta |-> 0]

\* After that do-while: a label of only LDH gets U+FFFD appended.
\* st is the state the do-while ended in.
MarkPunycodeFailure(st, labelStart, labelLength) ==
    IF st.onlyLDH
    THEN [dest  |-> StrInsert(st.dest, labelStart + labelLength, REPLACEMENT),
          info  |-> st.info, delta |-> 1]
    ELSE [dest |-> st.dest, info |-> st.info, delta |-> 0]

\* n passes of that do-while, run in two halves: the first half is evaluated
\* before the second starts.
RECURSIVE PunycodeFailScan(_, _, _, _, _)
PunycodeFailScan(st, limit, disallowNonLDHDot, stale, n) ==
    IF n <= 1 THEN PunycodeFailStep(st, limit, disallowNonLDHDot, stale)
    ELSE LET half == PunycodeFailScan(st, limit, disallowNonLDHDot, stale, n \div 2)
         IN  IF half = half
             THEN PunycodeFailScan(half, limit, disallowNonLDHDot, stale,
                                   n - (n \div 2))
             ELSE half

\* if(U_FAILURE(punycodeErrorCode)) { ... }
PunycodeFailure(dest, labelStart, labelLength, info, options, stale) ==
    MarkPunycodeFailure(
        PunycodeFailScan([dest |-> dest, info |-> AddError(info, "PUNYCODE"),
                          onlyLDH |-> TRUE, s |-> labelStart + 4, ended |-> FALSE],
                         labelStart + labelLength, "USE_STD3_RULES" \in options,
                         stale, labelLength - 4),
        labelStart, labelLength)

\* One pass of the do-while over the label's code units: the context after the
\* body for the unit at s, and the s the loop condition then tests.
ScanStep(c, s, env) ==
    LET ch == Rd(Cur(c), s, env.stale)
    IN  IF ch <= 127
        THEN IF ch = DOT
             THEN [c |-> [SetCur(c, Wr(Cur(c), s, REPLACEMENT))
                             EXCEPT !.info = AddError(@, "LABEL_HAS_DOT")],
                   s |-> s + 1]
             ELSE IF env.disallowNonLDHDot /\ asciiData(ch) < 0
             THEN [c |-> [SetCur(c, Wr(Cur(c), s, REPLACEMENT))
                             EXCEPT !.info = AddErrorIf(AddError(@, "DISALLOWED"),
                                                        env.wasPunycode,
                                                        "INVALID_ACE_LABEL")],
                   s |-> s + 1]
             ELSE [c |-> c, s |-> s + 1]
        ELSE LET c0 == [c EXCEPT !.oredChars = OrBits(@, ch)]
                 dv == [c0 EXCEPT !.info.hasDevChars = TRUE]
                 mp == [dv EXCEPT !.didMapDevChars = TRUE]
             IN  IF ch = SHARP_S
                 THEN IF env.doMapDevChars
                      THEN [c |-> [SetCur(mp, StrInsert(Wr(Cur(mp), s, SMALL_S),
                                                        s + 1, SMALL_S))
                                      EXCEPT !.labelLength = @ + 1],
                            s |-> s + 2]
                      ELSE [c |-> dv, s |-> s + 1]
                 ELSE IF ch = FINAL_SIGMA
                 THEN IF env.doMapDevChars
                      THEN [c |-> SetCur(mp, Wr(Cur(mp), s, SIGMA)), s |-> s + 1]
                      ELSE [c |-> dv, s |-> s + 1]
                 ELSE IF ch = ZWNJ \/ ch = ZWJ
                 THEN IF env.doMapDevChars
                      THEN [c |-> [SetCur(mp, StrRemove(Cur(mp), s, 1))
                                      EXCEPT !.labelLength = @ - 1],
                            s |-> s]
                      ELSE [c |-> dv, s |-> s + 1]
                 ELSE IF ch = REPLACEMENT
                 THEN [c |-> [c0 EXCEPT !.info = AddError(@, "DISALLOWED")], s |-> s + 1]
                 ELSE [c |-> c0, s |-> s + 1]

\* do { ... } while(s<limit), limit being label+labelLength: every pass takes
\* one of the label's code units, so there are at most labelLength passes.
\* r is what ScanStep returned.
Scanned(r) ==
    [c |-> r.c, s |-> r.s, ended |-> ~(r.s < r.c.labelStart + r.c.labelLength)]

ScanPass(st, env) == IF st.ended THEN st ELSE Scanned(ScanStep(st.c, st.s, env))

\* n passes, run in two halves: the first half is evaluated before the second
\* starts.
RECURSIVE ScanPasses(_, _, _)
ScanPasses(st, env, n) ==
    IF n <= 1 THEN ScanPass(st, env)
    ELSE LET half == ScanPasses(st, env, n \div 2)
         IN  IF half = half THEN ScanPasses(half, env, n - (n \div 2)) ELSE half

ScanLoop(c, env) ==
    ScanPasses([c |-> c, s |-> c.labelStart, ended |-> FALSE], env, c.labelLength).c

\* what replaceLabel() returned, with the info of the call
Replaced(r, info) == [dest |-> r.dest, info |-> info, delta |-> r.delta]

\* the code units label[0..labelLength) of a processLabel context
Label(c, stale) == View(Cur(c), c.labelStart, c.labelLength, stale)

\* "Validity check" for a label of labelLength>0: the hyphen checks.
HyphenChecks(c, stale) ==
    LET label == Label(c, stale)
    IN  [c EXCEPT !.info =
            AddErrorIf(
              AddErrorIf(
                AddErrorIf(@, c.labelLength >= 4 /\ label[3] = HYPHEN
                                                 /\ label[4] = HYPHEN,
                           "HYPHEN_3_4"),
                label[1] = HYPHEN, "LEADING_HYPHEN"),
              label[c.labelLength] = HYPHEN, "TRAILING_HYPHEN")]

\* U16_NEXT_UNSAFE(label, cpLength, c) and the replacement of a leading
\* combining mark by U+FFFD
LeadingCombiningMark(c, stale) ==
    LET first == U16NextUnsafe(Label(c, stale), 0)
    IN  IF IsMark(first.c)
        THEN [SetCur(c, StrReplace(Cur(c), c.labelStart, first.i, <<REPLACEMENT>>))
                 EXCEPT !.info = AddError(@, "LEADING_COMBINING_MARK"),
                        !.labelLength = @ + 1 - first.i]
        ELSE c

\* the values the scan of one label works with
ScanEnv(wasPunycode, toASCII, options, stale) ==
    [disallowNonLDHDot |-> "USE_STD3_RULES" \in options,
     doMapDevChars     |->
         ~wasPunycode /\
         (IF toASCII THEN "NONTRANSITIONAL_TO_ASCII" \notin options
                     ELSE "NONTRANSITIONAL_TO_UNICODE" \notin options),
     wasPunycode       |-> wasPunycode,
     stale             |-> stale]

\* the context when the scan starts
ScanStart(c) ==
    [dest |-> c.dest, ls |-> c.ls, str |-> c.str, labelStart |-> c.labelStart,
     labelLength |-> c.labelLength, info |-> c.info,
     oredChars |-> 0, didMapDevChars |-> FALSE]

\* if(didMapDevChars) { nfcNorm2.normalize(...); labelString=&normalized; ... }
Renormalize(c) ==
    IF c.didMapDevChars
    THEN LET normalized == NfcNormalize(IF c.ls = "dest"
                                        THEN TempSubString(c.dest, c.labelStart,
                                                           c.labelLength)
                                        ELSE c.str)
         IN  [c EXCEPT !.ls = "normalized", !.str = normalized,
                       !.labelStart = 0, !.labelLength = Len(normalized)]
    ELSE c

\* the CHECK_BIDI and CHECK_CONTEXTJ tests
BidiAndContextJ(c, options, stale) ==
    LET label == Label(c, stale)
    IN  [c EXCEPT !.info =
            AddErrorIf(
              AddErrorIf(@, "CHECK_BIDI" \in options /\ c.oredChars >= 1424
                              /\ ~isLabelOkBiDi(label \o <<stale>>, c.labelLength),
                         "BIDI"),
              "CHECK_CONTEXTJ" \in options
                  /\ AndBits(c.oredChars, ZWNJ) = ZWNJ
                  /\ ~isLabelOkContextJ(label),
              "CONTEXTJ")]

\* the Punycode re-encoding: "xn--" and u_strToPunycode(label, labelLength, ...)
ToPunycodeLabel(c, stale) == ACE_PREFIX \o StrToPunycode(Label(c, stale))

\* return replaceLabel(dest, destLabelStart, destLabelLength, punycode, punycodeLength)
ReplaceByPunycode(c, punycode, destLabelStart, destLabelLength) ==
    Replaced(replaceLabel(c.dest, destLabelStart, destLabelLength, FALSE,
                          punycode, Len(punycode)),
             AddErrorIf(c.info, Len(punycode) > 63, "LABEL_TOO_LONG"))

\* return replaceLabel(dest, destLabelStart, destLabelLength, *labelString, labelLength)
ReplaceByLabelString(c, destLabelStart, destLabelLength) ==
    Replaced(replaceLabel(c.dest, destLabelStart, destLabelLength, c.ls = "dest",
                          Cur(c), c.labelLength),
             c.info)

\* the end of processLabel(): re-encode for toASCII, or hand back labelString
Reencode(c, destLabelStart, destLabelLength, wasPunycode, toASCII, stale) ==
    IF toASCII /\ (IF wasPunycode
                   THEN c.didMapDevChars \/ c.info.errors # {}
                   ELSE c.oredChars >= 128)
    THEN ReplaceByPunycode(c, ToPunycodeLabel(c, stale),
                           destLabelStart, destLabelLength)
    ELSE ReplaceByLabelString(c, destLabelStart, destLabelLength)

\* processLabel() from "Validity check" on.  c is the context after the
\* Punycode step: [dest, ls, str, labelStart, labelLength, info].
ProcessLabelChecked(c, destLabelStart, destLabelLength, wasPunycode, toASCII, options, stale) ==
    IF c.labelLength = 0
    THEN ReplaceByLabelString([c EXCEPT !.info = AddErrorIf(@, toASCII, "EMPTY_LABEL")],
                              destLabelStart, destLabelLength)
    ELSE Reencode(
             BidiAndContextJ(
                 Renormalize(
                     ScanLoop(ScanStart(LeadingCombiningMark(HyphenChecks(c, stale),
                                                             stale)),
                              ScanEnv(wasPunycode, toASCII, options, stale))),
                 options, stale),
             destLabelStart, destLabelLength, wasPunycode, toASCII, stale)

\* if(unicode!=fromPunycode) INVALID_ACE_LABEL; labelString=&fromPunycode; ...
FromPunycode(unicode, fromPunycode, dest, info) ==
    [dest |-> dest, ls |-> "fromPunycode", str |-> fromPunycode,
     labelStart |-> 0, labelLength |-> Len(fromPunycode),
     info |-> AddErrorIf(info, unicode # fromPunycode, "INVALID_ACE_LABEL")]

\* A label that starts with "xn--"; unicode is what u_strFromPunycode returned.
ProcessPunycodeLabel(unicode, dest, labelStart, labelLength, toASCII, info, options, stale) ==
    IF ~unicode.ok
    THEN PunycodeFailure(dest, labelStart, labelLength, info, options, stale)
    ELSE ProcessLabelChecked(
             FromPunycode(unicode.str, Uts46Normalize(unicode.str), dest, info),
             labelStart, labelLength, TRUE, toASCII, options, stale)

\* labelLength>=4 && label[0]==0x78 && label[1]==0x6e && label[2]==0x2d && label[3]==0x2d
StartsWithACEPrefix(label) == Len(label) >= 4 /\ SubSeq(label, 1, 4) = ACE_PREFIX

\* processLabel(dest, labelStart, labelLength, toASCII, info): [dest, info, delta]
processLabel(dest, labelStart, labelLength, toASCII, info, options, stale) ==
    IF StartsWithACEPrefix(View(dest, labelStart, labelLength, stale))
    THEN ProcessPunycodeLabel(
             StrFromPunycode(View(dest, labelStart + 4, labelLength - 4, stale)),
             dest, labelStart, labelLength, toASCII, info, options, stale)
    ELSE ProcessLabelChecked(
             [dest |-> dest, ls |-> "dest", str |-> <<>>,
              labelStart |-> labelStart, labelLength |-> labelLength,
              info |-> info],
             labelStart, labelLength, FALSE, toASCII, options, stale)

\* ------------------------------------------------------------------------
\* processUnicode and process
\* ------------------------------------------------------------------------

\* The loop's variables after processLabel() returned r for the label that
\* ends at the dot at labelLimit.
NextLabel(st, r) ==
    [dest       |-> r.dest,
     info       |-> r.info,
     destLength |-> st.destLength + r.delta,
     labelStart |-> st.labelLimit + r.delta + 1,
     labelLimit |-> st.labelLimit + r.delta + 1]

\* One pass of "while(labelLimit<destLength)" in processUnicode.
\* st = [dest, info, destLength, labelStart, labelLimit]; destLength is the
\* loop's own count of dest's length, which processLabel's delta keeps up.
LabelPass(st, toASCII, options, stale) ==
    IF ~(st.labelLimit < st.destLength) THEN st
    ELSE IF Rd(st.dest, st.labelLimit, stale) = DOT
    THEN NextLabel(st, processLabel(st.dest, st.labelStart,
                                    st.labelLimit - st.labelStart,
                                    toASCII, st.info, options, stale))
    ELSE [st EXCEPT !.labelLimit = @ + 1]

\* what processUnicode() hands back of a loop state or a processLabel() result
DestAndInfo(r) == [dest |-> r.dest, info |-> r.info]

\* The processLabel() call for the last label, e being the state the loop ended in.
LastLabel(e, toASCII, options, stale) ==
    IF 0 = e.labelStart \/ e.labelStart < e.labelLimit
    THEN DestAndInfo(processLabel(e.dest, e.labelStart, e.labelLimit - e.labelStart,
                                  toASCII, e.info, options, stale))
    ELSE DestAndInfo(e)

\* n passes, run in two halves: the first half is evaluated before the second
\* starts.
RECURSIVE LabelPasses(_, _, _, _, _)
LabelPasses(st, toASCII, options, stale, n) ==
    IF n <= 1 THEN LabelPass(st, toASCII, options, stale)
    ELSE LET half == LabelPasses(st, toASCII, options, stale, n \div 2)
         IN  IF half = half
             THEN LabelPasses(half, toASCII, options, stale, n - (n \div 2))
             ELSE half

\* The whole loop (every pass brings labelLimit one closer to destLength) and
\* the last label after it.
LabelLoop(st, toASCII, options, stale) ==
    LastLabel(LabelPasses(st, toASCII, options, stale, st.destLength - st.labelLimit),
              toASCII, options, stale)

\* processUnicode() after the normalizer filled dest
ProcessNormalized(dest, labelStart, isLabel, toASCII, info, options, stale) ==
    IF isLabel
    THEN DestAndInfo(processLabel(dest, 0, Len(dest), toASCII, info, options, stale))
    ELSE LabelLoop([dest |-> dest, info |-> info, destLength |-> Len(dest),
                    labelStart |-> labelStart, labelLimit |-> labelStart],
                   toASCII, options, stale)

\* processUnicode(): [dest, info]
processUnicode(src, labelStart, mappingStart, isLabel, toASCII, dest, info, options, stale) ==
    ProcessNormalized(IF mappingStart = 0
                      THEN Uts46Normalize(src)
                      ELSE Uts46NormalizeSecondAndAppend(dest, Tail0(src, mappingStart)),
                      labelStart, isLabel, toASCII, info, options, stale)

\* One pass of the ASCII fastpath loop "for(i=0;; ++i)" of process().
\* st = [dest, info, labelStart, i, ended]; ended is "return" after the return
\* at i==srcLength, "break" after a break at index i, "no" while looping.
FastPathPass(src, st, isLabel, toASCII, disallowNonLDHDot) ==
    LET srcLength == Len(src)
        i         == st.i
        c         == At(src, i)
        break     == [st EXCEPT !.ended = "break"]
    IN  IF st.ended # "no" THEN st
        ELSE IF i = srcLength
        THEN [st EXCEPT !.info  = AddErrorIf(@, toASCII /\ (i - st.labelStart) > 63,
                                             "LABEL_TOO_LONG"),
                        !.ended = "return"]
        ELSE IF c > 127 THEN break
        ELSE IF asciiData(c) > 0
        THEN [st EXCEPT !.dest = Append(@, c + 32), !.i = i + 1]
        ELSE IF asciiData(c) < 0 /\ disallowNonLDHDot THEN break
        ELSE IF c = HYPHEN
        THEN IF i = st.labelStart + 3 /\ At(src, i - 1) = HYPHEN THEN break
             ELSE [st EXCEPT
                     !.dest = Append(@, c),
                     !.info = AddErrorIf(
                                AddErrorIf(@, i = st.labelStart, "LEADING_HYPHEN"),
                                (i + 1) = srcLength \/ At(src, i + 1) = DOT,
                                "TRAILING_HYPHEN"),
                     !.i    = i + 1]
        ELSE IF c = DOT
        THEN IF isLabel THEN break
             ELSE [st EXCEPT
                     !.dest = Append(@, c),
                     !.info = IF i = st.labelStart /\ i < (srcLength - 1)
                              THEN AddError(@, "EMPTY_LABEL")
                              ELSE AddErrorIf(@, toASCII /\ (i - st.labelStart) > 63,
                                              "LABEL_TOO_LONG"),
                     !.labelStart = i + 1,
                     !.i    = i + 1]
        ELSE [st EXCEPT !.dest = Append(@, c), !.i = i + 1]

\* n passes, run in two halves: the first half is evaluated before the second
\* starts.
RECURSIVE FastPathPasses(_, _, _, _, _, _)
FastPathPasses(src, st, isLabel, toASCII, disallowNonLDHDot, n) ==
    IF n <= 1 THEN FastPathPass(src, st, isLabel, toASCII, disallowNonLDHDot)
    ELSE LET half == FastPathPasses(src, st, isLabel, toASCII, disallowNonLDHDot,
                                    n \div 2)
         IN  IF half = half
             THEN FastPathPasses(src, half, isLabel, toASCII, disallowNonLDHDot,
                                 n - (n \div 2))
             ELSE half

\* The fastpath loop: at most srcLength+1 passes.
FastPath(src, isLabel, toASCII, disallowNonLDHDot) ==
    FastPathPasses(src, [dest |-> <<>>, info |-> InfoReset, labelStart |-> 0,
                         i |-> 0, ended |-> "no"],
                   isLabel, toASCII, disallowNonLDHDot, Len(src) + 1)

\* A UnicodeString: its code units, or bogus (no buffer, length 0).
BogusString == [str |-> <<>>, bogus |-> TRUE]

UnicodeString(units) == [str |-> units, bogus |-> FALSE]

\* what process() returns when the fastpath loop returned
FastPathResult(f) == [dest |-> f.dest, info |-> f.info, normalizerUsed |-> FALSE]

\* what process() returns when processUnicode() returned u
UnicodeResult(u) == [dest |-> u.dest, info |-> u.info, normalizerUsed |-> TRUE]

\* process() after the fastpath loop ended in f
AfterFastPath(f, src, isLabel, toASCII, options, stale) ==
    IF f.ended = "return"
    THEN FastPathResult(f)
    ELSE UnicodeResult(processUnicode(src, f.labelStart, f.i, isLabel, toASCII,
                                      f.dest, f.info, options, stale))

\* process() from "Arguments are fine, reset output values." on:
\* [dest, info, normalizerUsed]
processChecked(src, isLabel, toASCII, options, stale) ==
    IF Len(src) = 0
    THEN [dest |-> <<>>, info |-> AddError(InfoReset, "EMPTY_LABEL"),
          normalizerUsed |-> FALSE]
    ELSE AfterFastPath(FastPath(src, isLabel, toASCII, "USE_STD3_RULES" \in options),
                       src, isLabel, toASCII, options, stale)

\* what process() returns when its argument checks failed with errorCode
Rejected(info, errorCode) ==
    [dest |-> BogusString, info |-> info, errorCode |-> errorCode,
     accepted |-> FALSE, normalizerUsed |-> FALSE]

\* what process() returns when its argument checks passed, r being the
\* strings and info it worked out
Accepted(r, errorCode) ==
    [dest |-> UnicodeString(r.dest), info |-> r.info, errorCode |-> errorCode,
     accepted |-> TRUE, normalizerUsed |-> r.normalizerUsed]

\* A variant that does not reset info once the arguments are accepted.
processWithoutInfoReset(src, aliased, isLabel, toASCII, info, errorCode, options, stale) ==
    IF errorCode # "U_ZERO_ERROR"
    THEN Rejected(info, errorCode)
    ELSE IF aliased \/ src.bogus
    THEN Rejected(info, "U_ILLEGAL_ARGUMENT_ERROR")
    ELSE Accepted([processChecked(src.str, isLabel, toASCII, options, stale)
                      EXCEPT !.info = [errors |-> @.errors \cup info.errors,
                                       hasDevChars |-> @.hasDevChars \/ info.hasDevChars]],
                  errorCode)

\* process(src, isLabel, toASCII, dest, info, errorCode); aliased is (&dest==&src).
\* The result is [dest, info, errorCode, accepted, normalizerUsed]: accepted
\* tells that the argument checks passed.
process(src, aliased, isLabel, toASCII, info, errorCode, options, stale) ==
    IF errorCode # "U_ZERO_ERROR"
    THEN Rejected(info, errorCode)
    ELSE IF aliased \/ src.bogus
    THEN Rejected(info, "U_ILLEGAL_ARGUMENT_ERROR")
    ELSE Accepted(processChecked(src.str, isLabel, toASCII, options, stale), errorCode)

\* A result of process() with processed, the string process() left in dest.
Processed(r) ==
    [dest |-> r.dest, info |-> r.info, errorCode |-> r.errorCode,
     accepted |-> r.accepted, normalizerUsed |-> r.normalizerUsed,
     processed |-> r.dest]

\* A variant that leaves dest as process() returned it.
NeverSetToBogus(r) == r

\* if(info.hasErrors()) { dest.setToBogus(); }
SetToBogusIfErrors(r) ==
    [r EXCEPT !.dest = IF r.info.errors # {} THEN BogusString ELSE @]

\* A variant that takes every string of 254 units for too long.
CheckNameLengthNoDot(r) ==
    [r EXCEPT !.info = AddErrorIf(@, Len(r.dest.str) >= 254, "DOMAIN_NAME_TOO_LONG")]

\* if(dest.length()>=254 && (dest.length()>254 || dest[253]!=0x2e)) { ... }
CheckNameLength(r) ==
    [r EXCEPT !.info =
        AddErrorIf(@, Len(r.dest.str) >= 254
                      /\ (Len(r.dest.str) > 254 \/ At(r.dest.str, 253) # DOT),
                   "DOMAIN_NAME_TOO_LONG")]

\* The four entry points.
labelToASCII(label, aliased, info, errorCode, options, stale) ==
    SetToBogusIfErrors(
        Processed(process(label, aliased, TRUE, TRUE, info, errorCode, options, stale)))

labelToUnicode(label, aliased, info, errorCode, options, stale) ==
    Processed(process(label, aliased, TRUE, FALSE, info, errorCode, options, stale))

nameToASCII(name, aliased, info, errorCode, options, stale) ==
    SetToBogusIfErrors(
        CheckNameLength(
            Processed(process(name, aliased, FALSE, TRUE, info, errorCode, options,
                              stale))))

nameToUnicode(name, aliased, info, errorCode, options, stale) ==
    Processed(process(name, aliased, FALSE, FALSE, info, errorCode, options, stale))

\* ------------------------------------------------------------------------
\* A caller of one UTS46 instance
\* ------------------------------------------------------------------------

VARIABLES
    src,        \* the name or label the caller holds (code units)
    options,    \* the options the UTS46 instance was built with
    dest,       \* the caller's destination string
    info,       \* the caller's IDNAInfo
    errorCode,  \* the caller's UErrorCode
    calls,      \* the calls made so far, each with its arguments and results
    budget,     \* how many more calls the caller makes
    threads,    \* the calls that threads have under way on the one instance
    collation   \* a tailoring, its base, and what forData() collected from them

vars == <<src, options, dest, info, errorCode, calls, budget, threads, collation>>

\* how many calls a caller makes
MaxCalls == 1

\* how many pieces a name is put together from
MaxPieces == 2

\* how many pieces an all-ASCII name is put together from
MaxAsciiPieces == 3

\* how many labels of 63 units a long name starts with
MaxLongLabels == 3

\* what a read past the end of a string may find in the buffer
StaleUnits == {0, DOT, 101}

\* All strings put together from at most n of the given pieces.
RECURSIVE Joined(_, _)
Joined(pieces, n) ==
    IF n = 0 THEN {<<>>}
    ELSE LET shorter == Joined(pieces, n - 1)
         IN  shorter \cup {s \o p : s \in shorter, p \in pieces}

\* "a", ".", "-", sharp s, "xn--zca" (the ACE form of sharp s), ZWNJ, alef
Pieces ==
    {<<97>>, <<DOT>>, <<HYPHEN>>, <<SHARP_S>>, ACE_PREFIX \o <<122, 99, 97>>,
     <<ZWNJ>>, <<HEBREW_ALEF>>}

OptionSets ==
    {{}, {"NONTRANSITIONAL_TO_ASCII", "NONTRANSITIONAL_TO_UNICODE"},
     {"CHECK_BIDI", "CHECK_CONTEXTJ"}, {"USE_STD3_RULES"}}

InitCaller ==
    /\ dest = UnicodeString(<<>>)
    /\ info = InfoReset
    /\ errorCode = "U_ZERO_ERROR"
    /\ calls = <<>>
    /\ threads = <<>>
    /\ collation = <<>>

\* "fass.de", "fa<sharp s>.de" and "xn--fa-hia.de"
Examples ==
    {<<102, 97, 115, 115, DOT, 100, 101>>,
     <<102, 97, SHARP_S, DOT, 100, 101>>,
     ACE_PREFIX \o <<102, 97, HYPHEN, 104, 105, 97, DOT, 100, 101>>}

\* A caller with a short name of any kind.
Init ==
    /\ src \in Joined(Pieces, MaxPieces) \cup Examples
    /\ options \in OptionSets
    /\ budget = MaxCalls
    /\ InitCaller

\* "a", "A", "-", ".", "_", labels of 63 and of 64 letters, and "xn--a_-",
\* the ACE form of "a_"
AsciiPieces ==
    {<<97>>, <<65>>, <<HYPHEN>>, <<DOT>>, <<95>>, Rep(97, 63), Rep(97, 64),
     ACE_PREFIX \o <<97, 95, HYPHEN>>}

\* A caller with an all-ASCII name.
InitAscii ==
    /\ src \in Joined(AsciiPieces, MaxAsciiPieces)
    /\ options \in {{}, {"USE_STD3_RULES"}}
    /\ budget = MaxCalls
    /\ InitCaller

\* The long names: an optional first label U+00FC, then k labels of 63
\* letters, a label of n letters and an optional dot at the end.
LongName(first, k, n, dot) ==
    first \o Concat([j \in 1..k |-> Rep(97, 63) \o <<DOT>>]) \o Rep(97, n) \o dot

\* Lengths of the last label that bring the name or its ASCII form to 253, 254
\* and 255 units, and the last label itself to 63 and 64.
LastLabelLengths == (52..54) \cup (60..64)

\* A caller with a long name.
InitLength ==
    /\ src \in {LongName(first, k, n, dot) :
                   first \in {<<>>, <<U_DIAERESIS, DOT>>},
                   k \in 0..MaxLongLabels,
                   n \in LastLabelLengths,
                   dot \in {<<>>, <<DOT>>}}
    /\ options \in {{}, {"NONTRANSITIONAL_TO_ASCII", "NONTRANSITIONAL_TO_UNICODE"}}
    /\ budget = MaxCalls
    /\ InitCaller

\* "a", ".", sharp s and "xn--zca"
ChainPieces == {<<97>>, <<DOT>>, <<SHARP_S>>, ACE_PREFIX \o <<122, 99, 97>>}

\* A caller who makes calls on the results of earlier calls.
InitChain ==
    /\ src \in Joined(ChainPieces, MaxPieces)
    /\ options \in {{}, {"NONTRANSITIONAL_TO_ASCII", "NONTRANSITIONAL_TO_UNICODE"}}
    /\ budget = MaxCalls + 2
    /\ InitCaller

\* how many pieces a label with joiners is put together from
MaxContextJPieces == 4

\* "a", beh (Dual_Joining), alef (Right_Joining), Kharoshthi vowel sign I
\* (Transparent, a surrogate pair), virama (combining class 9), ZWNJ, ZWJ
ContextJPieces ==
    {<<97>>, <<ARABIC_BEH>>, <<ARABIC_ALEF>>, U16Units(KHAROSHTHI_SIGN_I),
     <<VIRAMA>>, <<ZWNJ>>, <<ZWJ>>}

\* A caller with a label that holds joiners, and an instance that checks them
\* and keeps deviation characters.
InitContextJ ==
    /\ src \in Joined(ContextJPieces, MaxContextJPieces)
    /\ options \in {{"CHECK_CONTEXTJ", "NONTRANSITIONAL_TO_ASCII",
                     "NONTRANSITIONAL_TO_UNICODE"},
                    {"CHECK_BIDI", "CHECK_CONTEXTJ", "NONTRANSITIONAL_TO_ASCII",
                     "NONTRANSITIONAL_TO_UNICODE"}}
    /\ budget = MaxCalls
    /\ InitCaller

\* The argument of a call: the caller's name, a copy of dest, or dest itself.
ArgSources == {"src", "copy", "alias"}

Arg(from) == IF from = "src" THEN UnicodeString(src) ELSE dest

\* The caller's variables after a call returned r.
Returned(fn, from, r) ==
    /\ dest' = r.dest
    /\ info' = r.info
    /\ errorCode' = r.errorCode
    /\ calls' = Append(calls, [fn |-> fn, arg |-> Arg(from), from |-> from,
                               accepted |-> r.accepted, processed |-> r.processed,
                               dest |-> r.dest, info |-> r.info,
                               errorCode |-> r.errorCode,
                               normalizerUsed |-> r.normalizerUsed])
    /\ budget' = budget - 1
    /\ UNCHANGED <<src, options, threads, collation>>

LabelToASCII ==
    /\ budget > 0
    /\ \E from \in ArgSources, stale \in StaleUnits :
           Returned("labelToASCII", from,
                    labelToASCII(Arg(from), from = "alias", info, errorCode,
                                 options, stale))

LabelToUnicode ==
    /\ budget > 0
    /\ \E from \in ArgSources, stale \in StaleUnits :
           Returned("labelToUnicode", from,
                    labelToUnicode(Arg(from), from = "alias", info, errorCode,
                                   options, stale))

NameToASCII ==
    /\ budget > 0
    /\ \E from \in ArgSources, stale \in StaleUnits :
           Returned("nameToASCII", from,
                    nameToASCII(Arg(from), from = "alias", info, errorCode,
                                options, stale))

NameToUnicode ==
    /\ budget > 0
    /\ \E from \in ArgSources, stale \in StaleUnits :
           Returned("nameToUnicode", from,
                    nameToUnicode(Arg(from), from = "alias", info, errorCode,
                                  options, stale))

\* The caller clears a failure code before going on.
ResetErrorCode ==
    /\ errorCode # "U_ZERO_ERROR"
    /\ errorCode' = "U_ZERO_ERROR"
    /\ UNCHANGED <<src, options, dest, info, calls, budget, threads, collation>>

Next ==
    \/ LabelToASCII
    \/ LabelToUnicode
    \/ NameToASCII
    \/ NameToUnicode
    \/ ResetErrorCode

Spec == Init /\ [][Next]_vars

SpecAscii == InitAscii /\ [][Next]_vars

SpecLength == InitLength /\ [][Next]_vars

SpecChain == InitChain /\ [][Next]_vars

SpecContextJ == InitContextJ /\ [][Next]_vars

\* ------------------------------------------------------------------------
\* Calls of several threads on one instance.  Each thread has its own label
\* or name, dest, info and errorCode; the threads share the instance, of which
\* a call reads the options.  A call is taken in the steps of process(): the
\* argument checks and resets, the ASCII fastpath, processUnicode(), and the
\* rest of the entry point.
\* ------------------------------------------------------------------------

\* how many threads call the instance
NumThreads == 2

Threads == 1..NumThreads

EntryPoints == {"labelToASCII", "labelToUnicode", "nameToASCII", "nameToUnicode"}

\* "a_", sharp s, "A." and "xn--zca": what the options make a difference for
ThreadArguments ==
    {<<97, 95>>, <<SHARP_S>>, <<65, DOT>>, ACE_PREFIX \o <<122, 99, 97>>}

\* A thread that is not in a call.
Idle ==
    [pc |-> "idle", fn |-> "", arg |-> <<>>, dest |-> UnicodeString(<<>>),
     info |-> InfoReset, errorCode |-> "U_ZERO_ERROR", work |-> <<>>,
     instance |-> {}]

InitThreads ==
    /\ src = <<>>
    /\ options \in OptionSets
    /\ budget = 0
    /\ dest = UnicodeString(<<>>)
    /\ info = InfoReset
    /\ errorCode = "U_ZERO_ERROR"
    /\ calls = <<>>
    /\ threads = [t \in Threads |-> Idle]
    /\ collation = <<>>

\* Thread t goes on as th; nothing of the instance or of another thread changes.
Step(t, th) ==
    /\ threads' = [threads EXCEPT ![t] = th]
    /\ UNCHANGED <<src, options, dest, info, errorCode, calls, budget, collation>>

\* Thread t calls an entry point with a string, a dest and an info of its own;
\* instance keeps the options the instance has at the time of the call.
Call(t) ==
    /\ threads[t].pc = "idle"
    /\ \E fn \in EntryPoints, arg \in ThreadArguments :
           Step(t, [Idle EXCEPT !.pc = "process", !.fn = fn, !.arg = arg,
                                !.instance = options])

\* process(): the argument checks, dest.remove() and info.reset().
ProcessArguments(t) ==
    /\ threads[t].pc = "process"
    /\ Step(t, [threads[t] EXCEPT !.pc = "fastpath",
                                  !.dest = UnicodeString(<<>>),
                                  !.info = InfoReset])

\* A variant of the fastpath step that writes the instance: it leaves
\* USE_STD3_RULES set in the options.
ProcessFastPathWritingOptions(t) ==
    /\ threads[t].pc = "fastpath"
    /\ LET th == threads[t]
           f  == FastPath(th.arg, th.fn \in {"labelToASCII", "labelToUnicode"},
                          th.fn \in {"labelToASCII", "nameToASCII"},
                          "USE_STD3_RULES" \in options)
       IN  threads' = [threads EXCEPT ![t] =
                          IF f.ended = "return"
                          THEN [th EXCEPT !.pc = "return", !.work = FastPathResult(f)]
                          ELSE [th EXCEPT !.pc = "unicode", !.work = f]]
    /\ options' = options \cup {"USE_STD3_RULES"}
    /\ UNCHANGED <<src, dest, info, errorCode, calls, budget, collation>>

\* process(): the fastpath loop, which reads the options of the instance.
ProcessFastPath(t) ==
    /\ threads[t].pc = "fastpath"
    /\ LET th == threads[t]
           f  == FastPath(th.arg, th.fn \in {"labelToASCII", "labelToUnicode"},
                          th.fn \in {"labelToASCII", "nameToASCII"},
                          "USE_STD3_RULES" \in options)
       IN  Step(t, IF f.ended = "return"
                   THEN [th EXCEPT !.pc = "return", !.work = FastPathResult(f)]
                   ELSE [th EXCEPT !.pc = "unicode", !.work = f])

\* process(): return processUnicode(...), which reads the options and the
\* normalizers of the instance.
ProcessUnicode(t) ==
    /\ threads[t].pc = "unicode"
    /\ \E stale \in StaleUnits :
           LET th == threads[t]
           IN  Step(t, [th EXCEPT
                   !.pc = "return",
                   !.work = AfterFastPath(th.work, th.arg,
                                          th.fn \in {"labelToASCII", "labelToUnicode"},
                                          th.fn \in {"labelToASCII", "nameToASCII"},
                                          options, stale)])

\* what an entry point does with r, the result of process()
EntryPointTail(fn, r) ==
    IF fn = "labelToASCII" THEN SetToBogusIfErrors(r)
    ELSE IF fn = "nameToASCII" THEN SetToBogusIfErrors(CheckNameLength(r))
    ELSE r

\* The entry point goes on after process() and returns.
Return(t) ==
    /\ threads[t].pc = "return"
    /\ LET th == threads[t]
           r  == EntryPointTail(th.fn, Processed(Accepted(th.work, th.errorCode)))
       IN  Step(t, [th EXCEPT !.pc = "done", !.dest = r.dest, !.info = r.info,
                              !.errorCode = r.errorCode, !.work = <<>>])

NextThreads ==
    \E t \in Threads :
        \/ Call(t)
        \/ ProcessArguments(t)
        \/ ProcessFastPath(t)
        \/ ProcessUnicode(t)
        \/ Return(t)

SpecThreads == InitThreads /\ [][NextThreads]_vars

\* ------------------------------------------------------------------------
\* Collation data, as collationsets.cpp reads it
\* ------------------------------------------------------------------------

\* A CE32 is a record with its tag: NORMAL (not special) with one CE,
\* MIN_SPECIAL (the fallback to the base), EXPANSION with its CEs, DIGIT with
\* the CE32 for non-numeric collation, and PREFIX and CONTRACTION with their
\* default CE32 and the UCharsTrie of their context strings.  A trie is the
\* sequence of its entries [key, value] in the order its Iterator yields.
MIN_SPECIAL_CE32 == [tag |-> "MIN_SPECIAL"]

isSpecialCE32(ce32) == ce32.tag # "NORMAL"

isPrefixCE32(ce32) == ce32.tag = "PREFIX"

isContractionCE32(ce32) == ce32.tag = "CONTRACTION"

getIndirectCE32(ce32) == IF ce32.tag = "DIGIT" THEN ce32.ce32 ELSE ce32

getFinalCE32(ce32) == IF isSpecialCE32(ce32) THEN getIndirectCE32(ce32) ELSE ce32

U_FAILURE(code) == code \in {"U_ILLEGAL_ARGUMENT_ERROR", "U_INTERNAL_PROGRAM_ERROR"}

U_SUCCESS(code) == ~U_FAILURE(code)

\* NULL is the empty sequence and a pointer to s is <<s>>.
NULL == <<>>

PointedTo(p) == IF p = NULL THEN <<>> ELSE p[1]

\* UnicodeString::compare() of two keys, in code unit order.
RECURSIVE CompareStrings(_, _)
CompareStrings(a, b) ==
    IF a = <<>> \/ b = <<>>
    THEN (IF a = b THEN 0 ELSE IF a = <<>> THEN 0 - 1 ELSE 1)
    ELSE IF a[1] # b[1]
         THEN (IF a[1] < b[1] THEN 0 - 1 ELSE 1)
         ELSE CompareStrings(Tail(a), Tail(b))

\* The code points of the modelled tries and the code units of the contexts.
FirstChar == 97

LastChar == 99

CollationChars == FirstChar..LastChar

MaxContextKeys == 2

SuffixUnits == 120..(119 + MaxContextKeys)

PrefixUnits == 112..(111 + MaxContextKeys)

RECURSIVE SortedSeq(_)
SortedSeq(S) ==
    IF S = {}
    THEN <<>>
    ELSE LET m == CHOOSE x \in S : \A y \in S : x <= y
         IN  <<m>> \o SortedSeq(S \ {m})

\* The tries with keys of one unit out of units and values out of values.
TrieOf(f) ==
    LET ks == SortedSeq(DOMAIN f)
    IN  [i \in 1..Len(ks) |-> [key |-> <<ks[i]>>, value |-> f[ks[i]]]]

Tries(units, values) ==
    {TrieOf(f) : f \in UNION {[K -> values] : K \in (SUBSET units) \ {{}}}}

NormalCE32s == {[tag |-> "NORMAL", ce |-> w] : w \in 1..2}

TerminalCE32s ==
    NormalCE32s
    \cup {[tag |-> "EXPANSION", ces |-> <<1, 2>>],
          [tag |-> "DIGIT", ce32 |-> [tag |-> "NORMAL", ce |-> 1]]}

ContractionCE32s ==
    {[tag |-> "CONTRACTION", default |-> [tag |-> "NORMAL", ce |-> 1], trie |-> t] :
        t \in Tries(SuffixUnits, NormalCE32s)}

PrefixedCE32s ==
    NormalCE32s
    \cup {[tag |-> "CONTRACTION", default |-> [tag |-> "NORMAL", ce |-> 1],
           trie |-> <<[key |-> <<120>>, value |-> [tag |-> "NORMAL", ce |-> 2]]>>]}

PrefixCE32s ==
    {[tag |-> "PREFIX", default |-> [tag |-> "NORMAL", ce |-> 1], trie |-> t] :
        t \in Tries(PrefixUnits, PrefixedCE32s)}

BaseCE32s == TerminalCE32s \cup ContractionCE32s \cup PrefixCE32s

\* utrie2_enum(): the ranges of code points with one value, in order.
RECURSIVE RangesFrom(_, _)
RangesFrom(trie, start) ==
    IF start > LastChar
    THEN <<>>
    ELSE LET same == {e \in start..LastChar : \A k \in start..e : trie[k] = trie[start]}
             end  == CHOOSE e \in same : \A k \in same : k <= e
         IN  <<[start |-> start, end |-> end, value |-> trie[start]]>>
             \o RangesFrom(trie, end + 1)

utrie2_enum(trie) == RangesFrom(trie, FirstChar)

\* ------------------------------------------------------------------------
\* TailoredSet
\* ------------------------------------------------------------------------

\* A TailoredSet is [data, baseData, tailored, prefix, suffix, errorCode];
\* ec is the caller's error code and debug is whether the build has U_DEBUG
\* set.  aborted is whether a U_ASSERT has ended the program, and returns is
\* FALSE once that has happened or a loop that never ends has been entered.
TailoredSetOf(data, baseData) ==
    [data |-> data, baseData |-> baseData, tailored |-> {},
     prefix |-> NULL, suffix |-> NULL, errorCode |-> "U_ZERO_ERROR",
     ec |-> "U_ZERO_ERROR", debug |-> FALSE, aborted |-> FALSE, returns |-> TRUE]

\* U_ASSERT(exp): assert(exp) in a build with U_DEBUG, nothing otherwise.
U_ASSERT(ts, exp) ==
    IF exp \/ ~ts.debug \/ ~ts.returns
    THEN ts
    ELSE [ts EXCEPT !.aborted = TRUE, !.returns = FALSE]

add(ts, c) ==
    IF ts.prefix = NULL /\ ts.suffix = NULL
    THEN [ts EXCEPT !.tailored = @ \cup {<<c>>}]
    ELSE [ts EXCEPT !.tailored =
              @ \cup {PointedTo(ts.prefix) \o <<c>> \o PointedTo(ts.suffix)}]

addSuffix(ts, c, sfx) ==
    [ts EXCEPT !.tailored = @ \cup {PointedTo(ts.prefix) \o <<c>> \o sfx}]

RECURSIVE AddContractionsFrom(_, _, _, _)
AddContractionsFrom(ts, c, p, i) ==
    IF i > Len(p)
    THEN ts
    ELSE AddContractionsFrom(addSuffix(ts, c, p[i].key), c, p, i + 1)

addContractions(ts, c, p) == AddContractionsFrom(ts, c, p, 1)

addPrefix(ts, pfx, c, ce32) ==
    LET final == getFinalCE32(ce32)
        added == IF isContractionCE32(final)
                 THEN [addContractions([ts EXCEPT !.prefix = <<pfx>>], c, final.trie)
                          EXCEPT !.prefix = NULL]
                 ELSE ts
    IN  [added EXCEPT !.tailored = @ \cup {pfx \o <<c>>}]

RECURSIVE AddPrefixesFrom(_, _, _, _)
AddPrefixesFrom(ts, c, p, i) ==
    IF i > Len(p)
    THEN ts
    ELSE AddPrefixesFrom(addPrefix(ts, p[i].key, c, p[i].value), c, p, i + 1)

addPrefixes(ts, c, p) == AddPrefixesFrom(ts, c, p, 1)

\* A long-primary CE32 is [tag LONG_PRIMARY, primary], and a CE32 with the
\* OFFSET tag has the start code point and the primary of its offset data.
isLongPrimaryCE32(ce32) == ce32.tag = "LONG_PRIMARY"

primaryFromLongPrimaryCE32(ce32) == ce32.primary

getThreeBytePrimaryForOffsetData(c, dataCE) == dataCE.primary + (c - dataCE.start)

\* compare(), the assertions about the tags that are left after the prefix
\* and contraction parts.
CompareTags(ts, ce32, baseCE32) ==
    LET offset  == U_ASSERT(ts, ce32.tag # "OFFSET")
        both    == U_ASSERT(offset, (ce32.tag = "CONTRACTION")
                                        = (baseCE32.tag = "CONTRACTION"))
    IN  IF ce32.tag = "CONTRACTION"
        THEN U_ASSERT(both, ts.prefix # NULL)
        ELSE U_ASSERT(both, ce32.tag # "PREFIX")

\* compare(), from "Non-contextual mappings, expansions, etc." on.
CompareNonContextual(ts, c, ce32, baseCE32) ==
    IF baseCE32.tag = "OFFSET" /\ ~isLongPrimaryCE32(ce32)
    THEN add(ts, c)
    ELSE IF baseCE32.tag = "OFFSET"
            /\ primaryFromLongPrimaryCE32(ce32)
                   # getThreeBytePrimaryForOffsetData(c, baseCE32.dataCE)
    THEN add(ts, c)
    ELSE IF ce32.tag # baseCE32.tag
    THEN add(ts, c)
    ELSE IF ce32.tag = "EXPANSION"
    THEN (IF Len(ce32.ces) # Len(baseCE32.ces)
          THEN add(ts, c)
          ELSE IF \E i \in 1..Len(ce32.ces) : ce32.ces[i] # baseCE32.ces[i]
          THEN add(ts, c)
          ELSE ts)
    ELSE IF ce32 # baseCE32
    THEN add(ts, c)
    ELSE ts

\* compare(), from the tags on.
CompareMappings(ts, c, ce32, baseCE32) ==
    LET asserted == CompareTags(ts, ce32, baseCE32)
    IN  IF ~asserted.returns \/ ce32.tag = "CONTRACTION"
        THEN asserted
        ELSE CompareNonContextual(asserted, c, ce32, baseCE32)

\* The limit sentinels of comparePrefixes() and compareContractions().
PrefixNone == <<65535>>

SuffixNone == <<65535, 65535>>

\* The string an iterator pointer tp stands for: none when the iterator is
\* at its end (tp = i = Len(p) + 1 is written as key index Len(p) + 1).
KeyAt(p, i, none) == IF i > Len(p) THEN none ELSE p[i].key

\* Iterator::getValue(): the value of the last entry that next() reached.
ValueAt(p, i) == IF i > Len(p) THEN p[Len(p)].value ELSE p[i].value

RECURSIVE compare(_, _, _, _)
RECURSIVE ComparePrefixesFrom(_, _, _, _, _, _)
RECURSIVE CompareContractionsFrom(_, _, _, _, _, _)

\* comparePrefixes() with tp at entry i of p and bp at entry j of q.  When
\* both iterators are at their end both pointers are &none, cmp is 0, the
\* values last read are compared under the sentinel, and tp = bp = NULL makes
\* the loop condition true again: the same iteration repeats for ever.
ComparePrefixesFrom(ts, c, p, q, i, j) ==
    LET tp  == KeyAt(p, i, PrefixNone)
        bp  == KeyAt(q, j, PrefixNone)
        cmp == CompareStrings(tp, bp)
    IN  IF ~ts.returns
        THEN ts
        ELSE IF cmp < 0
        THEN ComparePrefixesFrom(addPrefix(ts, tp, c, ValueAt(p, i)), c, p, q, i + 1, j)
        ELSE IF cmp > 0
        THEN ComparePrefixesFrom(addPrefix(ts, bp, c, ValueAt(q, j)), c, p, q, i, j + 1)
        ELSE LET compared == [compare([ts EXCEPT !.prefix = <<tp>>], c,
                                      ValueAt(p, i), ValueAt(q, j))
                                 EXCEPT !.prefix = NULL]
             IN  IF i > Len(p) /\ j > Len(q)
                 THEN [compared EXCEPT !.returns = FALSE]
                 ELSE ComparePrefixesFrom(compared, c, p, q, i + 1, j + 1)

comparePrefixes(ts, c, p, q) == ComparePrefixesFrom(ts, c, p, q, 1, 1)

\* compareContractions(), with the same loop.
CompareContractionsFrom(ts, c, p, q, i, j) ==
    LET tsfx == KeyAt(p, i, SuffixNone)
        bsfx == KeyAt(q, j, SuffixNone)
        cmp  == CompareStrings(tsfx, bsfx)
    IN  IF ~ts.returns
        THEN ts
        ELSE IF cmp < 0
        THEN CompareContractionsFrom(addSuffix(ts, c, tsfx), c, p, q, i + 1, j)
        ELSE IF cmp > 0
        THEN CompareContractionsFrom(addSuffix(ts, c, bsfx), c, p, q, i, j + 1)
        ELSE LET compared == [compare([ts EXCEPT !.suffix = <<tsfx>>], c,
                                      ValueAt(p, i), ValueAt(q, j))
                                 EXCEPT !.suffix = NULL]
             IN  IF i > Len(p) /\ j > Len(q)
                 THEN [compared EXCEPT !.returns = FALSE]
                 ELSE CompareContractionsFrom(compared, c, p, q, i + 1, j + 1)

compareContractions(ts, c, p, q) == CompareContractionsFrom(ts, c, p, q, 1, 1)

\* compare(), the prefix part: [ts, ce32, baseCE32] after it.
ComparePrefixPart(ts, c, ce32, baseCE32) ==
    IF isPrefixCE32(ce32)
    THEN [ts |-> IF isPrefixCE32(baseCE32)
                 THEN comparePrefixes(ts, c, ce32.trie, baseCE32.trie)
                 ELSE addPrefixes(ts, c, ce32.trie),
          ce32 |-> getFinalCE32(ce32.default),
          baseCE32 |-> IF isPrefixCE32(baseCE32)
                       THEN getFinalCE32(baseCE32.default)
                       ELSE baseCE32]
    ELSE IF isPrefixCE32(baseCE32)
    THEN [ts |-> addPrefixes(ts, c, baseCE32.trie),
          ce32 |-> ce32,
          baseCE32 |-> getFinalCE32(baseCE32.default)]
    ELSE [ts |-> ts, ce32 |-> ce32, baseCE32 |-> baseCE32]

\* compare(), the contraction part.
CompareContractionPart(ts, c, ce32, baseCE32) ==
    IF isContractionCE32(ce32)
    THEN [ts |-> IF isContractionCE32(baseCE32)
                 THEN compareContractions(ts, c, ce32.trie, baseCE32.trie)
                 ELSE addContractions(ts, c, ce32.trie),
          ce32 |-> getFinalCE32(ce32.default),
          baseCE32 |-> IF isContractionCE32(baseCE32)
                       THEN getFinalCE32(baseCE32.default)
                       ELSE baseCE32]
    ELSE IF isContractionCE32(baseCE32)
    THEN [ts |-> addContractions(ts, c, baseCE32.trie),
          ce32 |-> ce32,
          baseCE32 |-> getFinalCE32(baseCE32.default)]
    ELSE [ts |-> ts, ce32 |-> ce32, baseCE32 |-> baseCE32]

\* A call of compare() that does not return leaves ts.returns FALSE, and
\* nothing after it is executed.
compare(ts, c, ce32, baseCE32) ==
    LET a == ComparePrefixPart(ts, c, ce32, baseCE32)
    IN  IF ~a.ts.returns
        THEN a.ts
        ELSE LET b == CompareContractionPart(a.ts, c, a.ce32, a.baseCE32)
             IN  IF ~b.ts.returns
                 THEN b.ts
                 ELSE CompareMappings(b.ts, c, b.ce32, b.baseCE32)

\* TailoredSet::handleCE32(): the do-while loop over start..end.
RECURSIVE HandleRangeFrom(_, _, _, _)
HandleRangeFrom(ts, start, end, ce32) ==
    IF start > end \/ ~ts.returns
    THEN ts
    ELSE LET baseCE32 == getFinalCE32(ts.baseData[start])
             handled  == IF isSpecialCE32(ce32) \/ isSpecialCE32(baseCE32)
                         THEN compare(ts, start, ce32, baseCE32)
                         ELSE IF ce32 # baseCE32
                         THEN [ts EXCEPT !.tailored = @ \cup {<<start>>}]
                         ELSE ts
         IN  HandleRangeFrom(handled, start + 1, end, ce32)

TailoredSet_handleCE32(ts, start, end, ce32) ==
    LET indirect == IF isSpecialCE32(ce32) THEN getIndirectCE32(ce32) ELSE ce32
    IN  IF indirect = MIN_SPECIAL_CE32
        THEN ts
        ELSE HandleRangeFrom(ts, start, end, indirect)

enumTailoredRange(ts, range) ==
    IF range.value = MIN_SPECIAL_CE32
    THEN ts
    ELSE TailoredSet_handleCE32(ts, range.start, range.end, range.value)

RECURSIVE EnumTailoredFrom(_, _, _)
EnumTailoredFrom(ts, ranges, i) ==
    IF i > Len(ranges) \/ ~ts.returns \/ U_FAILURE(ts.errorCode)
    THEN ts
    ELSE EnumTailoredFrom(enumTailoredRange(ts, ranges[i]), ranges, i + 1)

\* forData(d, ec), with ts.ec the caller's ec.
TailoredSet_forData(ts) ==
    LET enumerated == EnumTailoredFrom([ts EXCEPT !.errorCode = ts.ec],
                                       utrie2_enum(ts.data), 1)
    IN  IF U_FAILURE(ts.ec)
        THEN ts
        ELSE IF enumerated.returns
        THEN [enumerated EXCEPT !.ec = enumerated.errorCode]
        ELSE enumerated

\* ------------------------------------------------------------------------
\* ContractionsAndExpansions
\* ------------------------------------------------------------------------

\* What a call through a null UnicodeSet pointer does is undefined: the build
\* may stop the program there or go on without the set having changed.
NullCallOutcomes == {"crash", "no effect"}

\* A ContractionsAndExpansions is [data, base, contractions, expansions,
\* addPrefixes, tailored, checkTailored, prefix, suffix, errorCode] with the
\* sets behind the two pointers; frozen is whether tailored.freeze() was
\* called.  nullCall is the outcome of a call through a null pointer,
\* nullCalls is whether there was one, and crashed whether the program has
\* stopped.  ec is the caller's error code.  handled lists the calls of
\* handleCE32() that enumCnERange() made, and atFreeze keeps the sets as they
\* were at tailored.freeze().
ContractionsAndExpansionsOf(con, exp, prefixes, nullCall) ==
    [data |-> <<>>, base |-> NULL, contractions |-> con, expansions |-> exp,
     addPrefixes |-> prefixes, tailored |-> {}, checkTailored |-> 0,
     prefix |-> NULL, suffix |-> NULL, errorCode |-> "U_ZERO_ERROR",
     frozen |-> FALSE,
     nullCall |-> nullCall, nullCalls |-> FALSE, crashed |-> FALSE,
     ec |-> "U_ZERO_ERROR", handled |-> <<>>, atFreeze |-> NULL]

\* The strings addStrings() builds for start..end.
StringsOf(cne, start, end) ==
    {PointedTo(cne.prefix) \o <<k>> \o PointedTo(cne.suffix) : k \in start..end}

\* addStrings(): set is "contractions" or "expansions", the pointer passed;
\* the strings are added through the expansions pointer.
addStrings(cne, start, end, set) ==
    IF cne.crashed \/ cne[set] = NULL
    THEN cne
    ELSE IF cne.expansions = NULL
    THEN [cne EXCEPT !.nullCalls = TRUE, !.crashed = (cne.nullCall = "crash")]
    ELSE [cne EXCEPT !.expansions = <<@[1] \cup StringsOf(cne, start, end)>>]

addExpansions(cne, start, end) ==
    IF cne.crashed
    THEN cne
    ELSE IF cne.prefix = NULL /\ cne.suffix = NULL
    THEN (IF cne.expansions # NULL
          THEN [cne EXCEPT !.expansions = <<@[1] \cup {<<k>> : k \in start..end}>>]
          ELSE cne)
    ELSE addStrings(cne, start, end, "expansions")

RECURSIVE CnE_handleCE32(_, _, _, _)
RECURSIVE HandlePrefixesFrom(_, _, _, _, _)
RECURSIVE HandleContractionsFrom(_, _, _, _, _)

\* handlePrefixes(): the loop over the prefixes, from entry i of p.
HandlePrefixesFrom(cne, start, end, p, i) ==
    IF i > Len(p)
    THEN [cne EXCEPT !.prefix = NULL]
    ELSE LET pointed == [cne EXCEPT !.prefix = <<p[i].key>>]
             con     == addStrings(pointed, start, end, "contractions")
             exp     == addStrings(con, start, end, "expansions")
         IN  HandlePrefixesFrom(CnE_handleCE32(exp, start, end, p[i].value),
                                start, end, p, i + 1)

handlePrefixes(cne, start, end, ce32) ==
    LET default == CnE_handleCE32(cne, start, end, ce32.default)
    IN  IF ~cne.addPrefixes
        THEN default
        ELSE HandlePrefixesFrom(default, start, end, ce32.trie, 1)

\* handleContractions(): the loop over the suffixes, from entry i of p.
HandleContractionsFrom(cne, start, end, p, i) ==
    IF i > Len(p)
    THEN [cne EXCEPT !.suffix = NULL]
    ELSE LET pointed == [cne EXCEPT !.suffix = <<p[i].key>>]
             con     == addStrings(pointed, start, end, "contractions")
             exp     == IF cne.prefix # NULL
                        THEN addStrings(con, start, end, "expansions")
                        ELSE con
         IN  HandleContractionsFrom(CnE_handleCE32(exp, start, end, p[i].value),
                                    start, end, p, i + 1)

handleContractions(cne, start, end, ce32) ==
    LET default == IF isContractionCE32(ce32.default)
                   THEN cne
                   ELSE CnE_handleCE32(cne, start, end, ce32.default)
    IN  HandleContractionsFrom(default, start, end, ce32.trie, 1)

\* ContractionsAndExpansions::handleCE32(), for the tags of the modelled data.
CnE_handleCE32(cne, start, end, ce32) ==
    IF ce32.tag \in {"NORMAL", "MIN_SPECIAL"}
    THEN cne
    ELSE IF ce32.tag = "EXPANSION"
    THEN (IF cne.prefix = NULL THEN addExpansions(cne, start, end) ELSE cne)
    ELSE IF ce32.tag = "PREFIX"
    THEN handlePrefixes(cne, start, end, ce32)
    ELSE IF ce32.tag = "CONTRACTION"
    THEN handleContractions(cne, start, end, ce32)
    ELSE IF ce32.tag = "DIGIT"
    THEN CnE_handleCE32(cne, start, end, ce32.ce32)
    ELSE IF ce32.tag \in {"RESERVED_TAG_11", "LEAD_SURROGATE"}
    THEN (IF U_SUCCESS(cne.errorCode)
          THEN [cne EXCEPT !.errorCode = "U_INTERNAL_PROGRAM_ERROR"]
          ELSE cne)
    ELSE cne

\* UnicodeSet::getRangeStart/End(): the ranges of a set of code points.
RECURSIVE RangesOfSet(_)
RangesOfSet(S) ==
    IF S = {}
    THEN <<>>
    ELSE LET start == CHOOSE x \in S : \A y \in S : x <= y
             run   == {e \in S : \A k \in start..e : k \in S}
             end   == CHOOSE e \in run : \A k \in run : k <= e
         IN  <<[start |-> start, end |-> end]>> \o RangesOfSet(S \ (start..end))

\* cne->handleCE32(start, end, ce32) as enumCnERange() calls it for a part
\* of the range it was given; the call is listed in handled.
HandleRange(cne, range, start, end) ==
    CHOOSE listed \in
        {[after EXCEPT !.handled =
             Append(@, [checkTailored |-> after.checkTailored, range |-> range,
                        start |-> start, end |-> end,
                        errorCode |-> after.errorCode])] :
            after \in {CnE_handleCE32(cne, start, end, range.value)}} : TRUE

RECURSIVE HandleRangesFrom(_, _, _, _)
HandleRangesFrom(cne, ranges, i, range) ==
    IF i > Len(ranges)
    THEN cne
    ELSE HandleRangesFrom(HandleRange(cne, range, ranges[i].start, ranges[i].end),
                          ranges, i + 1, range)

\* UnicodeSet::add(start, end), which leaves a frozen set as it is.
AddToTailored(cne, start, end) ==
    IF cne.frozen THEN cne ELSE [cne EXCEPT !.tailored = @ \cup (start..end)]

\* What enumCnERange() leaves and returns after its calls of handleCE32().
Returning(handled) ==
    CHOOSE r \in {[cne |-> c, return |-> U_SUCCESS(c.errorCode)] : c \in {handled}} : TRUE

\* A variant of enumCnERange() that does not look at tailored when the base
\* is enumerated.
enumCnERangeWithoutTailored(cne, range) ==
    CHOOSE r \in
        {IF c.checkTailored < 0 /\ range.value = MIN_SPECIAL_CE32
         THEN [cne |-> c, return |-> TRUE]
         ELSE Returning(HandleRange(IF c.checkTailored < 0
                                    THEN AddToTailored(c, range.start, range.end)
                                    ELSE c,
                                    range, range.start, range.end)) :
            c \in {cne}} : TRUE

\* enumCnERange(): [cne, return], return being what the callback returns.
enumCnERange(cne, range) ==
    CHOOSE r \in
        {IF c.checkTailored = 0
         THEN Returning(HandleRange(c, range, range.start, range.end))
         ELSE IF c.checkTailored < 0
         THEN (IF range.value = MIN_SPECIAL_CE32
               THEN [cne |-> c, return |-> TRUE]
               ELSE Returning(HandleRange(AddToTailored(c, range.start, range.end),
                                          range, range.start, range.end)))
         ELSE IF range.start = range.end
         THEN (IF range.start \in c.tailored
               THEN [cne |-> c, return |-> TRUE]
               ELSE Returning(HandleRange(c, range, range.start, range.end)))
         ELSE IF (range.start..range.end) \cap c.tailored # {}
         THEN Returning(HandleRangesFrom(
                            c, RangesOfSet((range.start..range.end) \ c.tailored),
                            1, range))
         ELSE Returning(HandleRange(c, range, range.start, range.end)) :
            c \in {cne}} : TRUE

\* utrie2_enum(trie, NULL, enumCnERange, this): it stops at the first range
\* for which the callback returns FALSE.
RECURSIVE EnumCnEFrom(_, _, _)
EnumCnEFrom(cne, ranges, i) ==
    IF i > Len(ranges)
    THEN cne
    ELSE CHOOSE enumerated \in
             {IF r.return THEN EnumCnEFrom(r.cne, ranges, i + 1) ELSE r.cne :
                 r \in {enumCnERange(cne, ranges[i])}} : TRUE

\* forData(): the members before the first enumeration.
BeforeEnumerations(cne, d) ==
    [cne EXCEPT !.errorCode = cne.ec,
                !.checkTailored = IF d.base # NULL THEN 0 - 1 ELSE @,
                !.data = d.trie, !.base = d.base]

\* forData(): the tailoring's trie is enumerated.
TailoringEnumerated(cne, d) ==
    EnumCnEFrom(BeforeEnumerations(cne, d), utrie2_enum(d.trie), 1)

\* forData(): tailored.freeze(), checkTailored = 1, data = d->base; atFreeze
\* keeps what the sets held at that point.
Frozen(added, d) ==
    [added EXCEPT !.frozen = TRUE,
                  !.atFreeze = <<[contractions |-> added.contractions,
                                  expansions |-> added.expansions,
                                  tailored |-> added.tailored]>>,
                  !.checkTailored = 1, !.data = d.base[1]]

\* forData(): the base's trie is enumerated and ec = errorCode.
BaseEnumerated(added, d) ==
    CHOOSE out \in
        {[based EXCEPT !.ec = based.errorCode] :
            based \in {EnumCnEFrom(Frozen(added, d), utrie2_enum(d.base[1]), 1)}} : TRUE

\* A variant of forData() that enumerates the base whatever errorCode is.
ForDataEnumerationsDespiteFailure(cne, d) ==
    CHOOSE out \in
        {IF d.base = NULL
         THEN [added EXCEPT !.ec = added.errorCode]
         ELSE BaseEnumerated(added, d) :
            added \in {TailoringEnumerated(cne, d)}} : TRUE

\* forData(d, ec) after the test of ec: d is [trie, base], base NULL or a
\* pointer to the base's trie.
ForDataEnumerations(cne, d) ==
    CHOOSE out \in
        {IF d.base = NULL \/ U_FAILURE(added.errorCode)
         THEN [added EXCEPT !.ec = added.errorCode]
         ELSE BaseEnumerated(added, d) :
            added \in {TailoringEnumerated(cne, d)}} : TRUE

\* forData(d, ec), with cne.ec the caller's ec.
CnE_forData(cne, d) ==
    IF U_FAILURE(cne.ec) THEN cne ELSE ForDataEnumerations(cne, d)

\* ------------------------------------------------------------------------
\* The callers of forData()
\* ------------------------------------------------------------------------

MaxCollationCalls == 1

\* A tailoring maps FirstChar to any CE32 and LastChar to the fallback, to a
\* CE32 of its own or to what FirstChar maps to; a base has no fallback.
Tailorings ==
    {[c \in CollationChars |-> IF c = FirstChar THEN first ELSE other] :
        first \in BaseCE32s \cup {MIN_SPECIAL_CE32},
        other \in {MIN_SPECIAL_CE32, [tag |-> "NORMAL", ce |-> 2]}}
    \cup {[c \in CollationChars |-> both] : both \in BaseCE32s}

Bases ==
    {[c \in CollationChars |-> IF c = FirstChar THEN first ELSE other] :
        first \in BaseCE32s,
        other \in {[tag |-> "NORMAL", ce |-> 1]}}
    \cup {[c \in CollationChars |-> both] : both \in BaseCE32s}

InitCollation ==
    /\ src = UnicodeString(<<>>)
    /\ options \in {{}}
    /\ dest = UnicodeString(<<>>)
    /\ info = InfoReset
    /\ errorCode = "U_ZERO_ERROR"
    /\ calls = <<>>
    /\ budget = 0
    /\ threads = <<>>
    /\ collation \in
           [data : Tailorings, baseData : Bases, done : {0},
            called : {"none"}, ec : {"U_ZERO_ERROR"}, ecs : {{"U_ZERO_ERROR"}},
            tailoredSet : {TailoredSetOf(<<>>, <<>>)},
            cne : {ContractionsAndExpansionsOf(NULL, NULL, FALSE, "crash")}]

Collected(c) ==
    /\ collation' = c
    /\ UNCHANGED <<src, options, dest, info, errorCode, calls, budget, threads>>

\* The error codes a caller may pass to forData(): no error, a warning and a
\* failure of an earlier call.  collation.ecs is the set a caller chooses from.
CallerErrorCodes == {"U_ZERO_ERROR", "U_USING_DEFAULT_WARNING", "U_ILLEGAL_ARGUMENT_ERROR"}

\* TailoredSet(baseData).forData(data, ec), in a build with or without
\* U_DEBUG and with an ec that is no failure.
TailoredSetForData ==
    /\ collation.done < MaxCollationCalls
    /\ \E debug \in BOOLEAN, ec \in {e \in collation.ecs : U_SUCCESS(e)} :
           Collected([collation EXCEPT
               !.done = @ + 1,
               !.called = "TailoredSet",
               !.ec = ec,
               !.tailoredSet =
                   TailoredSet_forData(
                       [TailoredSetOf(collation.data, collation.baseData)
                           EXCEPT !.debug = debug, !.ec = ec])])

\* ContractionsAndExpansions(con, exp, addPrefixes).forData(d, ec), with d
\* the tailoring or its base alone.
ContractionsAndExpansionsForData ==
    /\ collation.done < MaxCollationCalls
    /\ \E con \in {NULL, <<{}>>}, exp \in {NULL, <<{}>>}, prefixes \in BOOLEAN,
          nullCall \in NullCallOutcomes, baseAlone \in BOOLEAN, ec \in collation.ecs :
           Collected([collation EXCEPT
               !.done = @ + 1,
               !.called = "ContractionsAndExpansions",
               !.ec = ec,
               !.cne = CnE_forData(
                   [ContractionsAndExpansionsOf(con, exp, prefixes, nullCall)
                       EXCEPT !.ec = ec],
                   IF baseAlone
                   THEN [trie |-> collation.baseData, base |-> NULL]
                   ELSE [trie |-> collation.data, base |-> <<collation.baseData>>])])

NextCollation ==
    \/ TailoredSetForData
    \/ ContractionsAndExpansionsForData

SpecCollation == InitCollation /\ [][NextCollation]_vars

\* Tries for the enumeration of ranges: every code point of a tailoring
\* falls back, has an expansion or has a CE32 with a reserved tag; every code
\* point of a base has an expansion, a lead surrogate CE32 or a prefix with a
\* contraction under it.
RangeTailorings ==
    [CollationChars -> {MIN_SPECIAL_CE32, [tag |-> "EXPANSION", ces |-> <<1, 2>>],
                        [tag |-> "RESERVED_TAG_11"]}]

RangeBases ==
    [CollationChars ->
        {[tag |-> "EXPANSION", ces |-> <<1, 2>>], [tag |-> "LEAD_SURROGATE"],
         [tag |-> "PREFIX", default |-> [tag |-> "NORMAL", ce |-> 1],
          trie |-> <<[key |-> <<112>>, value |-> CHOOSE c \in PrefixedCE32s : isContractionCE32(c)]>>]}]

InitRanges ==
    /\ src = UnicodeString(<<>>)
    /\ options \in {{}}
    /\ dest = UnicodeString(<<>>)
    /\ info = InfoReset
    /\ errorCode = "U_ZERO_ERROR"
    /\ calls = <<>>
    /\ budget = 0
    /\ threads = <<>>
    /\ collation \in
           [data : RangeTailorings, baseData : RangeBases, done : {0},
            called : {"none"}, ec : {"U_ZERO_ERROR"}, ecs : {CallerErrorCodes},
            tailoredSet : {TailoredSetOf(<<>>, <<>>)},
            cne : {ContractionsAndExpansionsOf(NULL, NULL, FALSE, "crash")}]

NextRanges == ContractionsAndExpansionsForData

SpecRanges == InitRanges /\ [][NextRanges]_vars

\* Tries for the comparison of primaries: a code point of a tailoring falls
\* back or has a long-primary CE32, a CE32 with the OFFSET tag, or a
\* contraction whose default CE32 is a prefix CE32; a code point of a base has
\* a CE32 with the OFFSET tag, a long-primary CE32 or one CE.
OffsetData == [start |-> FirstChar, primary |-> 5]

OffsetTailorings ==
    [CollationChars ->
        {MIN_SPECIAL_CE32, [tag |-> "OFFSET", dataCE |-> OffsetData],
         [tag |-> "CONTRACTION",
          default |-> [tag |-> "PREFIX", default |-> [tag |-> "NORMAL", ce |-> 1],
                       trie |-> <<[key |-> <<112>>, value |-> [tag |-> "NORMAL", ce |-> 2]]>>],
          trie |-> <<[key |-> <<120>>, value |-> [tag |-> "NORMAL", ce |-> 2]]>>]}
        \cup {[tag |-> "LONG_PRIMARY", primary |-> p] : p \in 5..6}]

OffsetBases ==
    [CollationChars ->
        {[tag |-> "OFFSET", dataCE |-> OffsetData], [tag |-> "LONG_PRIMARY", primary |-> 5],
         [tag |-> "NORMAL", ce |-> 1]}]

InitOffsets ==
    /\ src = UnicodeString(<<>>)
    /\ options \in {{}}
    /\ dest = UnicodeString(<<>>)
    /\ info = InfoReset
    /\ errorCode = "U_ZERO_ERROR"
    /\ calls = <<>>
    /\ budget = 0
    /\ threads = <<>>
    /\ collation \in
           [data : OffsetTailorings, baseData : OffsetBases, done : {0},
            called : {"none"}, ec : {"U_ZERO_ERROR"}, ecs : {CallerErrorCodes},
            tailoredSet : {TailoredSetOf(<<>>, <<>>)},
            cne : {ContractionsAndExpansionsOf(NULL, NULL, FALSE, "crash")}]

NextOffsets == TailoredSetForData

SpecOffsets == InitOffsets /\ [][NextOffsets]_vars

\* ------------------------------------------------------------------------
\* The loop of ContractionsAndExpansions::handleCE32(), step by step
\* ------------------------------------------------------------------------

\* Here a CE32 with the DIGIT tag has the index of its entry in data->ce32s,
\* and one with the IMPLICIT tag has its low bit; of the other CE32s the
\* loop looks at the tag only.
MaxCE32Index == 1

TableCE32s ==
    {[tag |-> t] : t \in {"NORMAL", "MIN_SPECIAL", "EXPANSION", "HANGUL", "PREFIX",
                          "CONTRACTION", "RESERVED_TAG_11", "LEAD_SURROGATE", "OFFSET"}}
    \cup {[tag |-> "DIGIT", index |-> i] : i \in 0..MaxCE32Index}
    \cup {[tag |-> "IMPLICIT", low |-> b] : b \in 0..1}

\* handleCE32(start, end, ce32) is called with any CE32 and any data->ce32s;
\* fetched lists the tags for which the loop has fetched another CE32, pass
\* is the parity of the passes made, and ended is how the loop was left.
InitLoop ==
    /\ src = UnicodeString(<<>>)
    /\ options \in {{}}
    /\ dest = UnicodeString(<<>>)
    /\ info = InfoReset
    /\ errorCode = "U_ZERO_ERROR"
    /\ calls = <<>>
    /\ budget = 0
    /\ threads = <<>>
    /\ collation \in
           [ce32s : [0..MaxCE32Index -> TableCE32s], ce32 : TableCE32s,
            errorCode : {"U_ZERO_ERROR"}, fetched : {{}}, ended : {"no"},
            pass : {0}]

\* The loop is at the top of for(;;) again: pass tells one pass from the next.
NextPass(c) == [c EXCEPT !.pass = 1 - @]

\* A variant of the loop body that keeps the CE32 with the DIGIT tag.
HandleCE32StepWithoutFetch ==
    /\ collation.ended = "no"
    /\ Collected(NextPass(
           IF collation.ce32.tag \in {"NORMAL", "MIN_SPECIAL"}
           THEN [collation EXCEPT !.ended = "return"]
           ELSE IF collation.ce32.tag \in {"EXPANSION", "HANGUL"}
           THEN [collation EXCEPT !.ended = "addExpansions"]
           ELSE IF collation.ce32.tag = "PREFIX"
           THEN [collation EXCEPT !.ended = "handlePrefixes"]
           ELSE IF collation.ce32.tag = "CONTRACTION"
           THEN [collation EXCEPT !.ended = "handleContractions"]
           ELSE IF collation.ce32.tag = "DIGIT"
           THEN [collation EXCEPT !.fetched = @ \cup {"DIGIT"}]
           ELSE IF collation.ce32.tag \in {"RESERVED_TAG_11", "LEAD_SURROGATE"}
           THEN [collation EXCEPT !.ended = "return",
                                  !.errorCode = "U_INTERNAL_PROGRAM_ERROR"]
           ELSE IF collation.ce32.tag = "IMPLICIT" /\ collation.ce32.low = 0
           THEN [collation EXCEPT !.ce32 = collation.ce32s[0],
                                  !.fetched = @ \cup {"IMPLICIT"}]
           ELSE [collation EXCEPT !.ended = "return"]))

\* One pass through the body of for(;;) in handleCE32().
HandleCE32Step ==
    /\ collation.ended = "no"
    /\ Collected(NextPass(
           IF collation.ce32.tag \in {"NORMAL", "MIN_SPECIAL"}
           THEN [collation EXCEPT !.ended = "return"]
           ELSE IF collation.ce32.tag \in {"EXPANSION", "HANGUL"}
           THEN [collation EXCEPT !.ended = "addExpansions"]
           ELSE IF collation.ce32.tag = "PREFIX"
           THEN [collation EXCEPT !.ended = "handlePrefixes"]
           ELSE IF collation.ce32.tag = "CONTRACTION"
           THEN [collation EXCEPT !.ended = "handleContractions"]
           ELSE IF collation.ce32.tag = "DIGIT"
           THEN [collation EXCEPT !.ce32 = collation.ce32s[collation.ce32.index],
                                  !.fetched = @ \cup {"DIGIT"}]
           ELSE IF collation.ce32.tag \in {"RESERVED_TAG_11", "LEAD_SURROGATE"}
           THEN [collation EXCEPT !.ended = "return",
                                  !.errorCode = "U_INTERNAL_PROGRAM_ERROR"]
           ELSE IF collation.ce32.tag = "IMPLICIT" /\ collation.ce32.low = 0
           THEN [collation EXCEPT !.ce32 = collation.ce32s[0],
                                  !.fetched = @ \cup {"IMPLICIT"}]
           ELSE [collation EXCEPT !.ended = "return"]))

NextLoop == HandleCE32Step

\* The loop goes on as long as it has not been left.
SpecLoop == InitLoop /\ [][NextLoop]_vars /\ WF_vars(NextLoop)

\* ------------------------------------------------------------------------
\* Properties
\* ------------------------------------------------------------------------

\* the calls made so far
Calls == {calls[i] : i \in 1..Len(calls)}

IsToASCII(call) == call.fn \in {"labelToASCII", "nameToASCII"}

IsName(call) == call.fn \in {"nameToASCII", "nameToUnicode"}

IsASCII(s) == \A k \in 1..Len(s) : s[k] <= 127

\* the dot-separated labels of a string
Labels(s) ==
    LET dots   == SelectSeq([k \in 1..Len(s) |-> k], LAMBDA k : s[k] = DOT)
        limits == <<0>> \o dots \o <<Len(s) + 1>>
    IN  {SubSeq(s, limits[j] + 1, limits[j + 1] - 1) : j \in 1..(Len(limits) - 1)}

\* C1: whenever labelToASCII or nameToASCII returns with no error bit set and
\* no fatal error, every code unit of dest is ASCII; a label that came in as a
\* valid xn-- label is not handed back in its decoded Unicode form.
ToASCIIOutputIsASCII ==
    \A call \in Calls :
        IsToASCII(call) /\ call.accepted /\ call.info.errors = {}
            => IsASCII(call.dest.str)

\* C2: when nameToASCII reported no error bits for a name, nameToASCII of its
\* result (same options) reports no error bits and returns the same string.
NameToASCIIIdempotent ==
    \A i \in 1..(Len(calls) - 1) :
        LET first  == calls[i]
            second == calls[i + 1]
        IN  /\ first.fn = "nameToASCII" /\ first.accepted /\ first.info.errors = {}
            /\ second.fn = "nameToASCII" /\ second.accepted
            /\ second.from = "copy" /\ second.arg = first.dest
            => second.info.errors = {} /\ second.dest = first.dest

\* C3: for a name S whose processing sets no error bits,
\* nameToUnicode(nameToASCII(S)) equals nameToUnicode(S), the options being the
\* same for the three calls.
RoundTrip ==
    \A i, j \in 1..Len(calls) :
        LET toUnicode == calls[i]
            toASCII   == calls[j]
        IN  /\ toUnicode.fn = "nameToUnicode" /\ toUnicode.accepted
            /\ toUnicode.from = "src" /\ toUnicode.info.errors = {}
            /\ toASCII.fn = "nameToASCII" /\ toASCII.accepted
            /\ toASCII.from = "src" /\ toASCII.info.errors = {}
            /\ j < Len(calls)
            /\ calls[j + 1].fn = "nameToUnicode" /\ calls[j + 1].accepted
            /\ calls[j + 1].from = "copy" /\ calls[j + 1].arg = toASCII.dest
            => calls[j + 1].dest = toUnicode.dest

\* C4: whenever labelToASCII or nameToASCII returns with no error bit set,
\* every dot-separated label of dest has at most 63 code units.
LabelsAtMost63 ==
    \A call \in Calls :
        IsToASCII(call) /\ call.accepted /\ call.info.errors = {}
            => \A label \in Labels(call.dest.str) : Len(label) <= 63

\* whether a string of this length and last unit is too long for a domain name
TooLongForName(s) == Len(s) >= 254 /\ ~(Len(s) = 254 /\ s[254] = DOT)

\* C5: nameToASCII sets DOMAIN_NAME_TOO_LONG exactly when the processed result
\* has 254 or more code units and is not a 254-unit string that ends in a dot;
\* so an error-free result has at most 253 units, or 254 ending in a dot.
NameLengthRule ==
    \A call \in Calls :
        call.fn = "nameToASCII" /\ call.accepted
            => /\ ("DOMAIN_NAME_TOO_LONG" \in call.info.errors)
                      <=> TooLongForName(call.processed.str)
               /\ call.info.errors = {} => ~TooLongForName(call.dest.str)

\* C5, its case: the Unicode path finished a name of exactly 254 units that
\* ends in a dot, and nameToASCII returned it without an error.
NameOf254EndingInDot ==
    \E call \in Calls :
        /\ call.fn = "nameToASCII" /\ call.accepted /\ call.normalizerUsed
        /\ Len(call.processed.str) = 254 /\ call.processed.str[254] = DOT
        /\ call.info.errors = {} /\ ~call.dest.bogus

\* C6: for labelToASCII and nameToASCII called with valid arguments, dest is
\* bogus on return if and only if an error bit is set in info.errors; with no
\* error bit set the processed string is returned.
BogusIffErrors ==
    \A call \in Calls :
        IsToASCII(call) /\ call.accepted
            => /\ call.dest.bogus <=> call.info.errors # {}
               /\ call.info.errors = {} => call.dest = call.processed

\* C6, its case: a toASCII call with valid arguments processed a string, set
\* an error bit and returned a bogus dest.
BogusAfterError ==
    \E call \in Calls :
        /\ IsToASCII(call) /\ call.accepted
        /\ call.info.errors # {} /\ call.processed.str # <<>> /\ call.dest.bogus

\* a name of lowercase letters, U+00DF and dots, with at least one U+00DF, no
\* empty label but possibly the last, and no label that starts with "xn--"
IsSharpSName(s) ==
    /\ \A k \in 1..Len(s) : (s[k] >= 97 /\ s[k] <= 122) \/ s[k] = SHARP_S \/ s[k] = DOT
    /\ \E k \in 1..Len(s) : s[k] = SHARP_S
    /\ s[1] # DOT
    /\ \A k \in 1..(Len(s) - 1) : ~(s[k] = DOT /\ s[k + 1] = DOT)
    /\ \A label \in Labels(s) : ~StartsWithACEPrefix(label)

\* the string with every U+00DF replaced by "ss"
WithSS(s) ==
    Concat([k \in 1..Len(s) |-> IF s[k] = SHARP_S THEN <<SMALL_S, SMALL_S>>
                                                  ELSE <<s[k]>>])

\* C7: with NONTRANSITIONAL_TO_ASCII unset, nameToASCII of a name whose only
\* non-ASCII characters are U+00DF, in labels that do not start with xn--,
\* returns the name with every U+00DF replaced by "ss" and nothing else
\* changed, no label Punycode-encoded, no error bit set, hasDevChars true.
SharpSBecomesSS ==
    \A call \in Calls :
        /\ call.fn = "nameToASCII" /\ call.accepted
        /\ "NONTRANSITIONAL_TO_ASCII" \notin options
        /\ IsSharpSName(call.arg.str)
        => /\ call.info.errors = {}
           /\ call.info.hasDevChars
           /\ call.dest = UnicodeString(WithSS(call.arg.str))

\* an all-ASCII string of letters, digits, hyphens and dots
IsLDHDot(s) == \A k \in 1..Len(s) : s[k] <= 127 /\ asciiData(s[k]) >= 0

\* whether a label of the string has "--" at its positions 3 and 4
HasHyphen34(s) ==
    \E label \in Labels(s) :
        Len(label) >= 4 /\ label[3] = HYPHEN /\ label[4] = HYPHEN

\* the error bits process() set in a call
ProcessErrors(call) == call.info.errors \ {"DOMAIN_NAME_TOO_LONG"}

\* the error bits the Unicode path sets for the argument of a call
UnicodePathErrors(call, stale) ==
    processUnicode(call.arg.str, 0, 0, ~IsName(call), IsToASCII(call), <<>>,
                   InfoReset, options, stale).info.errors

\* C8: for an all-ASCII input with no disallowed character and no xn-- label,
\* in both directions and for names and single labels, the ASCII fast path
\* sets the same error bits as the Unicode path does for the same input.
FastPathErrorsAsUnicodePath ==
    \A call \in Calls :
        /\ call.accepted /\ ~call.normalizerUsed
        /\ call.arg.str # <<>>
        /\ IsLDHDot(call.arg.str)
        /\ \A label \in Labels(call.arg.str) : ~StartsWithACEPrefix(label)
        => \A stale \in StaleUnits :
               ProcessErrors(call) = UnicodePathErrors(call, stale)

\* the string with A-Z replaced by a-z
Lowercased(s) ==
    [k \in 1..Len(s) |-> IF s[k] >= 65 /\ s[k] <= 90 THEN s[k] + 32 ELSE s[k]]

\* C9 as stated: for every all-ASCII input with no disallowed character and no
\* "--" at positions 3-4 of a label, process() returns the input with A-Z
\* lowercased and nothing else changed, without invoking the normalizer.
FastPathLowercases ==
    \A call \in Calls :
        call.accepted /\ IsLDHDot(call.arg.str) /\ ~HasHyphen34(call.arg.str)
            => /\ call.processed = UnicodeString(Lowercased(call.arg.str))
               /\ ~call.normalizerUsed

\* C9: the same for names, and for single labels that contain no dot.
FastPathLowercasesUndotted ==
    \A call \in Calls :
        /\ call.accepted /\ IsLDHDot(call.arg.str) /\ ~HasHyphen34(call.arg.str)
        /\ IsName(call) \/ \A k \in 1..Len(call.arg.str) : call.arg.str[k] # DOT
        => /\ call.processed = UnicodeString(Lowercased(call.arg.str))
           /\ ~call.normalizerUsed

\* C9, its case: the fast path finished a name with an uppercase letter, a
\* hyphen and a dot in it.
FastPathLowercasedName ==
    \E call \in Calls :
        /\ call.accepted /\ IsName(call) /\ ~call.normalizerUsed
        /\ IsLDHDot(call.arg.str) /\ ~HasHyphen34(call.arg.str)
        /\ \E i, j, k \in 1..Len(call.arg.str) :
               /\ call.arg.str[i] = 65 /\ call.processed.str[i] = 97
               /\ call.arg.str[j] = HYPHEN /\ call.arg.str[k] = DOT

\* The IDNA2008 bidi rule for a label's code points: the first has class L, R
\* or AL; the last that is not NSM has class L or EN in an LTR label and R, AL,
\* EN or AN in an RTL label; the others have classes allowed for the label's
\* direction, and an RTL label does not have both EN and AN.
BidiRuleOk(cps) ==
    LET dir(k) == CharDirection(cps[k])
        notNSM == {k \in 1..Len(cps) : dir(k) # U_DIR_NON_SPACING_MARK}
        last   == CHOOSE k \in notNSM : \A x \in notNSM : x <= k
        dirs   == {dir(k) : k \in 2..Len(cps)}
        others == {U_EUROPEAN_NUMBER, U_EUROPEAN_NUMBER_SEPARATOR,
                   U_COMMON_NUMBER_SEPARATOR, U_EUROPEAN_NUMBER_TERMINATOR,
                   U_OTHER_NEUTRAL, U_BOUNDARY_NEUTRAL, U_DIR_NON_SPACING_MARK}
    IN  IF dir(1) = U_LEFT_TO_RIGHT
        THEN /\ dir(last) \in {U_LEFT_TO_RIGHT, U_EUROPEAN_NUMBER}
             /\ dirs \subseteq {U_LEFT_TO_RIGHT} \cup others
        ELSE /\ dir(1) \in {U_RIGHT_TO_LEFT, U_RIGHT_TO_LEFT_ARABIC}
             /\ dir(last) \in {U_RIGHT_TO_LEFT, U_RIGHT_TO_LEFT_ARABIC,
                               U_EUROPEAN_NUMBER, U_ARABIC_NUMBER}
             /\ dirs \subseteq {U_RIGHT_TO_LEFT, U_RIGHT_TO_LEFT_ARABIC,
                                U_ARABIC_NUMBER} \cup others
             /\ ~({U_EUROPEAN_NUMBER, U_ARABIC_NUMBER} \subseteq dirs)

\* C10: isLabelOkBiDi returns true if and only if the bidi rule passes, so
\* under CHECK_BIDI a label of letters "a" and alef, with an alef in it, gets
\* the BIDI error exactly when it breaks the rule; a label of alefs gets none.
BidiErrorIffRuleBroken ==
    \A call \in Calls :
        /\ call.accepted /\ "CHECK_BIDI" \in options
        /\ \A k \in 1..Len(call.arg.str) : call.arg.str[k] \in {97, HEBREW_ALEF}
        /\ \E k \in 1..Len(call.arg.str) : call.arg.str[k] = HEBREW_ALEF
        => ("BIDI" \in call.info.errors) <=> ~BidiRuleOk(CodePoints(call.arg.str))

\* the indices of the code points of cps that are in the set cs
IndicesOf(cps, cs) == {k \in 1..Len(cps) : cps[k] \in cs}

\* (Joining_Type:{L,D})(Joining_Type:T)* ends just before index k
PrecontextOk(cps, k) ==
    \E m \in 1..(k - 1) :
        /\ JoiningType(cps[m]) \in {"L", "D"}
        /\ \A t \in (m + 1)..(k - 1) : JoiningType(cps[t]) = "T"

\* (Joining_Type:T)*(Joining_Type:{R,D}) starts just after index k
PostcontextOk(cps, k) ==
    \E m \in (k + 1)..Len(cps) :
        /\ JoiningType(cps[m]) \in {"R", "D"}
        /\ \A t \in (k + 1)..(m - 1) : JoiningType(cps[t]) = "T"

\* a label whose only joiner is one ZWNJ, not at the start and not after a
\* code point of combining class 9
HasOneZwnj(cps) ==
    /\ IndicesOf(cps, {ZWJ}) = {}
    /\ Cardinality(IndicesOf(cps, {ZWNJ})) = 1
    /\ \A k \in IndicesOf(cps, {ZWNJ}) : k > 1 /\ GetCombiningClass(cps[k - 1]) # 9

\* the calls of labelToUnicode on the caller's label by an instance that
\* checks CONTEXTJ and keeps the joiners
ContextJCalls ==
    {call \in Calls :
        /\ call.fn = "labelToUnicode" /\ call.accepted /\ call.from = "src"
        /\ {"CHECK_CONTEXTJ", "NONTRANSITIONAL_TO_UNICODE"} \subseteq options}

\* C11: a ZWNJ at an index above 0 whose preceding code point does not have
\* combining class 9 is accepted if and only if, skipping Transparent code
\* points, the first other code point to its left is Left- or Dual-Joining
\* and the first other code point to its right is Right- or Dual-Joining; so
\* a label (L|D) T* ZWNJ T* (R|D) gets no CONTEXTJ error.
ZwnjAcceptedIffContext ==
    \A call \in ContextJCalls :
        LET cps == CodePoints(call.dest.str)
        IN  HasOneZwnj(cps)
                => \A k \in IndicesOf(cps, {ZWNJ}) :
                       ("CONTEXTJ" \notin call.info.errors)
                           <=> (PrecontextOk(cps, k) /\ PostcontextOk(cps, k))

\* every joiner of the label comes right after a code point of combining class 9
JoinersAfterVirama(cps) ==
    \A k \in IndicesOf(cps, {ZWNJ, ZWJ}) : k > 1 /\ GetCombiningClass(cps[k - 1]) = 9

\* a ZWJ that does not come right after a code point of combining class 9
ZwjWithoutVirama(cps) ==
    \E k \in IndicesOf(cps, {ZWJ}) : k = 1 \/ GetCombiningClass(cps[k - 1]) # 9

\* C12: a ZWJ at index 0 or not right after a code point of combining class 9
\* fails the check, and so does a ZWNJ at index 0; a label whose ZWNJ and ZWJ
\* all come right after a code point of combining class 9 passes, the scan
\* going on after each of them.
ViramaRule ==
    \A call \in ContextJCalls :
        LET cps == CodePoints(call.dest.str)
        IN  /\ ZwjWithoutVirama(cps) => "CONTEXTJ" \in call.info.errors
            /\ (cps # <<>> /\ cps[1] = ZWNJ) => "CONTEXTJ" \in call.info.errors
            /\ JoinersAfterVirama(cps) => "CONTEXTJ" \notin call.info.errors

\* a label with a joiner right after a virama and more text after the joiner
\* was accepted
JoinerAfterViramaAccepted ==
    \E call \in ContextJCalls :
        LET cps == CodePoints(call.dest.str)
        IN  /\ IndicesOf(cps, {ZWNJ, ZWJ}) # {}
            /\ Len(cps) \notin IndicesOf(cps, {ZWNJ, ZWJ})
            /\ JoinersAfterVirama(cps)
            /\ "CONTEXTJ" \notin call.info.errors

\* the name is empty, or has an empty label other than the one after a dot at
\* its end: a dot at the start of the name or right after another dot
HasMisplacedEmptyLabel(s) ==
    \/ s = <<>>
    \/ \E k \in 1..Len(s) : s[k] = DOT /\ (k = 1 \/ s[k - 1] = DOT)

\* C13: nameToASCII sets EMPTY_LABEL if and only if the name is empty or has
\* an empty label that is not the final label after a trailing dot ("a." has
\* none; "a..b", ".a" and "." have one), whether the empty label is met in the
\* ASCII fast path or in the Unicode path.
EmptyLabelRule ==
    \A call \in Calls :
        call.fn = "nameToASCII" /\ call.accepted
            => ("EMPTY_LABEL" \in call.info.errors)
                   <=> HasMisplacedEmptyLabel(call.arg.str)

\* an ASCII character other than a letter, a digit or the hyphen
NonLDH(u) ==
    u <= 127 /\ ~(u \in 48..57 \/ u \in 65..90 \/ u \in 97..122 \/ u = HYPHEN)

\* a single xn-- label that Punycode decoding turns into ASCII text
IsAceLabel(s) ==
    /\ StartsWithACEPrefix(s)
    /\ \A k \in 1..Len(s) : s[k] # DOT
    /\ StrFromPunycode(SubSeq(s, 5, Len(s))).ok
    /\ IsASCII(StrFromPunycode(SubSeq(s, 5, Len(s))).str)

\* The STD3 restriction on the call: the characters it is about are the
\* non-LDH ASCII characters of the labels, taken after decoding when the
\* argument is an xn-- label; the dot of a single label counts if dotToo.  The
\* result is compared unit by unit unless toASCII encoded it again.
Std3RuleFor(call, dotToo) ==
    LET ace      == IsAceLabel(call.arg.str)
        text     == IF ace
                    THEN StrFromPunycode(SubSeq(call.arg.str, 5, Len(call.arg.str))).str
                    ELSE call.arg.str
        out      == call.processed.str
        subjects == {k \in 1..Len(text) :
                        NonLDH(text[k]) /\ (text[k] = DOT => dotToo /\ ~IsName(call))}
        sameText == ~(ace /\ IsToASCII(call))
    IN  IF "USE_STD3_RULES" \in options
        THEN subjects # {}
                 => /\ "DISALLOWED" \in call.info.errors
                    /\ ace => "INVALID_ACE_LABEL" \in call.info.errors
                    /\ sameText => /\ Len(out) = Len(text)
                                   /\ \A k \in subjects : out[k] = REPLACEMENT
        ELSE /\ "DISALLOWED" \notin call.info.errors
             /\ sameText => /\ Len(out) = Len(text)
                            /\ \A k \in subjects : out[k] = text[k]

\* the calls on a plain label or name, or on one xn-- label that decodes to
\* ASCII text
Std3Calls ==
    {call \in Calls :
        call.accepted /\ (IsAceLabel(call.arg.str) \/ ~HasHyphen34(call.arg.str))}

HasDevChar(s) == \E k \in 1..Len(s) : s[k] \in {SHARP_S, FINAL_SIGMA, ZWNJ, ZWJ}

\* whether the string is an xn-- label whose decoded form holds a deviation
\* character
DecodesToDevChar(label) ==
    /\ StartsWithACEPrefix(label)
    /\ StrFromPunycode(SubSeq(label, 5, Len(label))).ok
    /\ HasDevChar(StrFromPunycode(SubSeq(label, 5, Len(label))).str)

\* whether the call met a deviation character: in its argument as normalized,
\* or in the decoded form of one of its labels
MetDevChar(call) ==
    LET normalized == Uts46Normalize(call.arg.str)
    IN  \/ HasDevChar(normalized)
        \/ \E label \in (IF IsName(call) THEN Labels(normalized) ELSE {normalized}) :
               DecodesToDevChar(label)

\* C15: after any of the four entry points returns without a fatal error,
\* info.hasDevChars is true if and only if a deviation character (U+00DF,
\* U+03C2, U+200C, U+200D) was met in the input as normalized or in the decoded
\* form of a Punycode label, whatever the direction and the options, also in
\* labels that start with xn-- and fail Punycode decoding.
HasDevCharsIffMet ==
    \A call \in Calls :
        call.accepted => (call.info.hasDevChars <=> MetDevChar(call))

\* what the entry point fn of an instance with the options opts returns for
\* the argument arg when it is called with an empty dest, a reset info and no
\* failure in errorCode
FreshCallWith(fn, arg, opts, stale) ==
    IF fn = "labelToASCII"
    THEN labelToASCII(arg, FALSE, InfoReset, "U_ZERO_ERROR", opts, stale)
    ELSE IF fn = "labelToUnicode"
    THEN labelToUnicode(arg, FALSE, InfoReset, "U_ZERO_ERROR", opts, stale)
    ELSE IF fn = "nameToASCII"
    THEN nameToASCII(arg, FALSE, InfoReset, "U_ZERO_ERROR", opts, stale)
    ELSE nameToUnicode(arg, FALSE, InfoReset, "U_ZERO_ERROR", opts, stale)

FreshCall(fn, arg, stale) == FreshCallWith(fn, arg, options, stale)

\* what a call that has just returned left behind, given what it found
ArgumentsChecked(call) ==
    IF errorCode # "U_ZERO_ERROR"
    THEN ~call.accepted /\ dest'.bogus /\ errorCode' = errorCode /\ info' = info
    ELSE IF call.from = "alias" \/ call.arg.bogus
    THEN /\ ~call.accepted /\ dest'.bogus /\ info' = info
         /\ errorCode' = "U_ILLEGAL_ARGUMENT_ERROR"
    ELSE /\ call.accepted /\ errorCode' = "U_ZERO_ERROR"
         /\ \E stale \in StaleUnits :
                /\ dest' = FreshCall(call.fn, call.arg, stale).dest
                /\ info' = FreshCall(call.fn, call.arg, stale).info

\* C16: a call that finds a failure in errorCode sets dest to bogus and leaves
\* errorCode and info as they are; a call whose dest is its source, or whose
\* source has no buffer, sets U_ILLEGAL_ARGUMENT_ERROR and dest to bogus and
\* does not reset info; any other call empties dest and resets info before it
\* starts, so that nothing of an earlier call's errors or hasDevChars is left
\* in its result.
ArgumentErrors ==
    [][Len(calls') > Len(calls) => ArgumentsChecked(calls'[Len(calls')])]_vars

\* a call with errors was followed by an accepted call without any
CleanCallAfterErrors ==
    \E i \in 1..(Len(calls) - 1) :
        /\ calls[i].info.errors # {}
        /\ calls[i + 1].accepted
        /\ calls[i + 1].info.errors = {} /\ ~calls[i + 1].info.hasDevChars

\* C17: when several calls run at the same time on one instance, each with a
\* dest and an info of its own, every call returns, under every interleaving,
\* the dest, info and errorCode it returns when it runs alone on the instance
\* as it was when the call started; no call writes the options of the instance.
ConcurrentCallsAsAlone ==
    \A t \in DOMAIN threads :
        threads[t].pc = "done"
            => \E stale \in StaleUnits :
                   LET alone == FreshCallWith(threads[t].fn,
                                              UnicodeString(threads[t].arg),
                                              threads[t].instance, stale)
                   IN  /\ threads[t].dest = alone.dest
                       /\ threads[t].info = alone.info
                       /\ threads[t].errorCode = alone.errorCode

\* two calls with different arguments have both returned
TwoCallsReturned ==
    /\ \A t \in DOMAIN threads : threads[t].pc = "done"
    /\ \E t, u \in DOMAIN threads : threads[t].arg # threads[u].arg

\* ------------------------------------------------------------------------
\* Properties of TailoredSet and ContractionsAndExpansions
\* ------------------------------------------------------------------------

\* The CEs a CE32 without context stands for.
CEsOf(ce32) ==
    LET final == getFinalCE32(ce32)
    IN  IF final.tag = "NORMAL" THEN <<final.ce>> ELSE final.ces

\* The mappings [prefix, suffix, ces] of a CE32 that is met after prefix pfx.
SuffixMappings(ce32, pfx) ==
    IF isContractionCE32(ce32)
    THEN {[prefix |-> pfx, suffix |-> <<>>, ces |-> CEsOf(ce32.default)]}
         \cup {[prefix |-> pfx, suffix |-> ce32.trie[i].key,
                ces |-> CEsOf(ce32.trie[i].value)] : i \in 1..Len(ce32.trie)}
    ELSE {[prefix |-> pfx, suffix |-> <<>>, ces |-> CEsOf(ce32)]}

MappingsOf(ce32) ==
    IF isPrefixCE32(ce32)
    THEN SuffixMappings(getFinalCE32(ce32.default), <<>>)
         \cup UNION {SuffixMappings(getFinalCE32(ce32.trie[i].value), ce32.trie[i].key) :
                        i \in 1..Len(ce32.trie)}
    ELSE SuffixMappings(getFinalCE32(ce32), <<>>)

\* The strings prefix+c+suffix whose mapping is in one of the two CE32s only:
\* it differs, or there is none on the other side.
DifferingStrings(c, ce32, baseCE32) ==
    {m.prefix \o <<c>> \o m.suffix :
        m \in (MappingsOf(ce32) \ MappingsOf(baseCE32))
              \cup (MappingsOf(baseCE32) \ MappingsOf(ce32))}

ExpectedTailored(data, baseData) ==
    UNION {IF getIndirectCE32(data[c]) = MIN_SPECIAL_CE32
           THEN {}
           ELSE DifferingStrings(c, data[c], baseData[c]) : c \in CollationChars}

TailoredSetCalled == collation # <<>> /\ collation.tailoredSet.data # <<>>

TailoredSetCorrectWhenReturned ==
    (TailoredSetCalled /\ collation.tailoredSet.returns) =>
        collation.tailoredSet.tailored
            = ExpectedTailored(collation.data, collation.baseData)

TailoredSetReturnedWithString ==
    /\ TailoredSetCalled
    /\ collation.tailoredSet.returns
    /\ \E s \in collation.tailoredSet.tailored : Len(s) = 3

CnECalled == collation # <<>> /\ collation.cne.data # <<>>

\* The data the call was made on, and the CE32 it takes for c: the
\* tailoring's, or the base's where the tailoring falls back or is not used.
CalledOn ==
    IF collation.cne.base = NULL
    THEN [trie |-> collation.baseData, base |-> NULL]
    ELSE [trie |-> collation.data, base |-> <<collation.baseData>>]

CollectedCE32(c) ==
    IF collation.cne.base = NULL \/ collation.data[c] = MIN_SPECIAL_CE32
    THEN collation.baseData[c]
    ELSE collation.data[c]

\* The strings c+suffix of a contraction, after prefix pfx.
ContractionStrings(pfx, c, ce32) ==
    {pfx \o <<c>> \o ce32.trie[i].key : i \in 1..Len(ce32.trie)}

\* The strings prefix+c+suffix of the contractions under the prefixes.
PrefixedContractionStrings(c, ce32) ==
    UNION {IF isContractionCE32(ce32.trie[i].value)
           THEN ContractionStrings(ce32.trie[i].key, c, ce32.trie[i].value)
           ELSE {} : i \in 1..Len(ce32.trie)}

\* C19: with both sets supplied, the strings c+suffix of a contraction met
\* without a prefix are in contractions and not in expansions (no suffix of
\* the data maps to an expansion), and the strings prefix+c+suffix of a
\* contraction under a prefix are in both sets.
StringsRoutedToRequestedSet ==
    (CnECalled /\ collation.cne.contractions # NULL /\ collation.cne.expansions # NULL) =>
        \A c \in CollationChars :
            /\ isContractionCE32(CollectedCE32(c)) =>
                   /\ ContractionStrings(<<>>, c, CollectedCE32(c))
                          \subseteq collation.cne.contractions[1]
                   /\ ContractionStrings(<<>>, c, CollectedCE32(c))
                          \cap collation.cne.expansions[1] = {}
            /\ (isPrefixCE32(CollectedCE32(c)) /\ collation.cne.addPrefixes) =>
                   PrefixedContractionStrings(c, CollectedCE32(c))
                       \subseteq (collation.cne.contractions[1]
                                  \cap collation.cne.expansions[1])

\* The same call with both sets supplied.
WithBothSets ==
    CnE_forData(ContractionsAndExpansionsOf(<<{}>>, <<{}>>,
                                            collation.cne.addPrefixes, "crash"),
                CalledOn)

\* C20: with one of the two sets null, forData makes no call through the
\* null pointer, completes, and leaves in the other set what it leaves
\* there when both sets are supplied.
NullSetNotCollected ==
    (CnECalled /\ (collation.cne.contractions = NULL) # (collation.cne.expansions = NULL)) =>
        /\ ~collation.cne.nullCalls
        /\ ~collation.cne.crashed
        /\ collation.cne.contractions # NULL =>
               collation.cne.contractions = WithBothSets.contractions
        /\ collation.cne.expansions # NULL =>
               collation.cne.expansions = WithBothSets.expansions

\* What is behind a pointer to a set: nothing when the pointer is null.
SetBehind(p) == IF p = NULL THEN {} ELSE p[1]

\* The code points and strings that the enumeration of the base added.
AddedInBasePhase ==
    (SetBehind(collation.cne.contractions)
        \ SetBehind(collation.cne.atFreeze[1].contractions))
    \cup (SetBehind(collation.cne.expansions)
              \ SetBehind(collation.cne.atFreeze[1].expansions))

BasePhaseCalls ==
    {i \in DOMAIN collation.cne.handled : collation.cne.handled[i].checkTailored = 1}

\* C21: after forData() on a tailoring with a base, tailored is what it was
\* at tailored.freeze(), no handleCE32() call of the base enumeration was for
\* a range with a tailored code point, and no code point or string added by
\* the base enumeration is, or is built around, a tailored code point.
CnEDisjointness ==
    (collation.called = "ContractionsAndExpansions" /\ collation.cne.atFreeze # NULL) =>
        /\ collation.cne.tailored = collation.cne.atFreeze[1].tailored
        /\ \A i \in BasePhaseCalls :
               (collation.cne.handled[i].start..collation.cne.handled[i].end)
                   \cap collation.cne.tailored = {}
        /\ \A s \in AddedInBasePhase :
               \A k \in DOMAIN s : s[k] \notin collation.cne.tailored

BasePhaseAddedAroundTailored ==
    /\ collation.called = "ContractionsAndExpansions"
    /\ collation.cne.atFreeze # NULL
    /\ collation.cne.tailored # {}
    /\ \E s \in AddedInBasePhase : Len(s) > 1
    /\ \E i \in BasePhaseCalls :
           collation.cne.handled[i].end < collation.cne.handled[i].range.end

\* The handleCE32() calls that met a reserved tag or the lead surrogate tag.
InternalErrorCalls ==
    {i \in DOMAIN collation.cne.handled :
        collation.cne.handled[i].range.value.tag \in {"RESERVED_TAG_11", "LEAD_SURROGATE"}}

\* The object as its constructor left it, with the caller's error code.
AsConstructed ==
    [ContractionsAndExpansionsOf(collation.cne.contractions, collation.cne.expansions,
                                 collation.cne.addPrefixes, collation.cne.nullCall)
        EXCEPT !.ec = collation.ec]

\* C23: forData() called with a failure does nothing.  Otherwise, when
\* handleCE32() meets a reserved tag or the lead surrogate tag, the caller
\* gets U_INTERNAL_PROGRAM_ERROR, no handleCE32() call follows for a later
\* range, and the base is not enumerated when the tailoring met the tag;
\* without such a tag the caller keeps the code it passed.
InternalErrorStopsEnumeration ==
    (collation.called = "ContractionsAndExpansions" /\ ~collation.cne.crashed) =>
        IF U_FAILURE(collation.ec)
        THEN collation.cne = AsConstructed
        ELSE /\ InternalErrorCalls = {} => collation.cne.ec = collation.ec
             /\ InternalErrorCalls # {} =>
                    /\ collation.cne.ec = "U_INTERNAL_PROGRAM_ERROR"
                    /\ \A i \in InternalErrorCalls :
                           /\ \A j \in DOMAIN collation.cne.handled :
                                  j > i => collation.cne.handled[j].range
                                               = collation.cne.handled[i].range
                           /\ collation.cne.handled[i].checkTailored < 0 =>
                                  collation.cne.atFreeze = NULL /\ BasePhaseCalls = {}

InternalErrorInTailoring ==
    /\ collation.called = "ContractionsAndExpansions"
    /\ ~collation.cne.crashed
    /\ collation.ec = "U_USING_DEFAULT_WARNING"
    /\ collation.cne.ec = "U_INTERNAL_PROGRAM_ERROR"
    /\ \E i \in InternalErrorCalls :
           /\ collation.cne.handled[i].checkTailored < 0
           /\ collation.cne.handled[i].range.end < LastChar
           /\ collation.data[LastChar] # MIN_SPECIAL_CE32

\* The ranges of a trie up to the first one whose handleCE32() call left a
\* failure: the ranges for which the callback is called.
Enumerated(checkTailored, range) ==
    \A i \in DOMAIN collation.cne.handled :
        U_FAILURE(collation.cne.handled[i].errorCode) =>
            /\ collation.cne.handled[i].checkTailored = checkTailored
            /\ collation.cne.handled[i].range.start >= range.start

CallsFor(checkTailored, range) ==
    {i \in DOMAIN collation.cne.handled :
        /\ collation.cne.handled[i].checkTailored = checkTailored
        /\ collation.cne.handled[i].range = range}

CallsWith(checkTailored, range, c) ==
    {i \in CallsFor(checkTailored, range) :
        c \in collation.cne.handled[i].start..collation.cne.handled[i].end}

RangesOfSeq(ranges) == {ranges[i] : i \in DOMAIN ranges}

\* What C28 says of one range of the base of a tailoring.
SplitAroundTailored(range) ==
    LET untailored == (range.start..range.end) \ collation.cne.tailored
    IN  /\ \A c \in range.start..range.end :
               Cardinality(CallsWith(1, range, c)) = IF c \in untailored THEN 1 ELSE 0
        /\ untailored = {} => CallsFor(1, range) = {}
        /\ untailored = range.start..range.end =>
               Cardinality(CallsFor(1, range)) = 1

\* C28: when the base of a tailoring is enumerated, the handleCE32() calls
\* for a range cover each of its code points that is not in tailored once
\* and no other code point, with no call for a range that is all tailored
\* and one call for a range without tailored code points; without a base
\* every range is handled whole in one call and tailored stays empty.
BaseRangeSplitting ==
    (collation.called = "ContractionsAndExpansions" /\ U_SUCCESS(collation.ec)) =>
        IF collation.cne.base # NULL
        THEN \A range \in RangesOfSeq(utrie2_enum(collation.baseData)) :
                 Enumerated(1, range) => SplitAroundTailored(range)
        ELSE /\ collation.cne.tailored = {}
             /\ \A range \in RangesOfSeq(utrie2_enum(collation.baseData)) :
                    Enumerated(0, range) =>
                        /\ Cardinality(CallsFor(0, range)) = 1
                        /\ \A c \in range.start..range.end :
                               Cardinality(CallsWith(0, range, c)) = 1

BaseRangeSplitInTwo ==
    /\ collation.called = "ContractionsAndExpansions"
    /\ collation.cne.base # NULL
    /\ \E range \in RangesOfSeq(utrie2_enum(collation.baseData)) :
           /\ Enumerated(1, range)
           /\ Cardinality(CallsFor(1, range)) = 2

\* The primary the offset data of the base gives code point c.
OffsetPrimary(c) ==
    getThreeBytePrimaryForOffsetData(c, collation.baseData[c].dataCE)

\* C26: a code point whose base CE32 has the OFFSET tag is in tailored when
\* its tailoring CE32 is not a long-primary CE32 or has another primary than
\* the offset data gives, and is not in tailored when its tailoring CE32 is
\* a long-primary CE32 with that primary.
OffsetComparison ==
    (collation.called = "TailoredSet" /\ collation.tailoredSet.returns) =>
        \A c \in CollationChars :
            (collation.baseData[c].tag = "OFFSET"
                 /\ collation.data[c].tag \in {"LONG_PRIMARY", "NORMAL"}) =>
                (<<c>> \in collation.tailoredSet.tailored)
                    = ~(/\ isLongPrimaryCE32(collation.data[c])
                        /\ primaryFromLongPrimaryCE32(collation.data[c]) = OffsetPrimary(c))

\* The code points for which the tailoring has a tag that compare() must
\* not meet: OFFSET, or PREFIX after the prefix and contraction parts.
ForbiddenInTailoring ==
    {c \in CollationChars :
        \/ collation.data[c].tag = "OFFSET"
        \/ /\ collation.data[c].tag = "CONTRACTION"
           /\ collation.data[c].default.tag = "PREFIX"}

\* C22: when the tailoring has a forbidden tag, forData() returns with
\* U_INTERNAL_PROGRAM_ERROR in the caller's error code.
ForbiddenTagsAreErrors ==
    (collation.called = "TailoredSet" /\ ForbiddenInTailoring # {}) =>
        /\ collation.tailoredSet.returns
        /\ collation.tailoredSet.ec = "U_INTERNAL_PROGRAM_ERROR"

\* The code points with a prefix CE32, or with a contraction CE32, in both
\* the tailoring and the base: comparePrefixes() or compareContractions()
\* walks their two tries.
WalkedInParallel ==
    {c \in CollationChars :
        \/ isPrefixCE32(collation.data[c]) /\ isPrefixCE32(collation.baseData[c])
        \/ isContractionCE32(collation.data[c]) /\ isContractionCE32(collation.baseData[c])}

KeysOf(ce32) == {ce32.trie[i].key : i \in 1..Len(ce32.trie)}

\* The strings of the keys that one of the two tries of c has alone.
OneSidedStrings(c) ==
    {IF isPrefixCE32(collation.data[c]) THEN key \o <<c>> ELSE <<c>> \o key :
        key \in (KeysOf(collation.data[c]) \ KeysOf(collation.baseData[c]))
                \cup (KeysOf(collation.baseData[c]) \ KeysOf(collation.data[c]))}

\* C27: the walk over the two tries of a code point ends when both iterators
\* are exhausted, so that forData() returns; the strings of the keys that
\* only one trie has are in tailored, and the sentinel is no key: no string
\* of tailored has U+FFFF in it.
ParallelWalkEnds ==
    (collation.called = "TailoredSet" /\ WalkedInParallel # {}) =>
        /\ collation.tailoredSet.returns
        /\ \A c \in WalkedInParallel :
               OneSidedStrings(c) \subseteq collation.tailoredSet.tailored
        /\ \A s \in collation.tailoredSet.tailored :
               \A k \in DOMAIN s : s[k] # 65535

\* Whether the loop fetches another CE32 for ce32.
Continues(ce32) == ce32.tag = "DIGIT" \/ (ce32.tag = "IMPLICIT" /\ ce32.low = 0)

\* The CE32 that the loop fetches for ce32.
Fetched(ce32) ==
    IF ce32.tag = "DIGIT" THEN collation.ce32s[ce32.index] ELSE collation.ce32s[0]

\* Whether the fetches that start at ce32 stop within n of them.
RECURSIVE FetchesStop(_, _)
FetchesStop(ce32, n) ==
    \/ ~Continues(ce32)
    \/ n > 0 /\ FetchesStop(Fetched(ce32), n - 1)

\* The fetches stop if they do so before an entry of ce32s is met twice.
FetchesEnd == FetchesStop(collation.ce32, MaxCE32Index + 2)

\* C30 as stated: the loop is left, whatever ce32 and data->ce32s are.
HandleCE32Terminates == <>(collation.ended # "no")

\* C30: the loop is left when the fetches that start at ce32 come to a CE32
\* without the DIGIT tag and that is not an IMPLICIT one with low bit 0; only
\* those two cases keep the loop going.
HandleCE32TerminatesIfFetchesEnd ==
    /\ FetchesEnd ~> (collation.ended # "no")
    /\ [][(collation.ended = "no" /\ collation'.ended = "no") => Continues(collation.ce32)]_vars

LoopLeftAfterBothFetches ==
    /\ collation.ended # "no"
    /\ collation.fetched = {"DIGIT", "IMPLICIT"}

\* ------------------------------------------------------------------------
\* processLabel and the label it is called on
\* ------------------------------------------------------------------------

\* the labels of a string as slices [start, length], start 0-based
LabelSlices(s) ==
    LET dots   == SelectSeq([k \in 1..Len(s) |-> k], LAMBDA k : s[k] = DOT)
        limits == <<0>> \o dots \o <<Len(s) + 1>>
    IN  {[start  |-> limits[j], length |-> limits[j + 1] - limits[j] - 1] :
             j \in 1..(Len(limits) - 1)}

\* r = processLabel(d, start, length, ...) left everything outside the label
\* alone, and the label that was length long is length + r.delta long.
FrameKept(d, slice, r) ==
    /\ Len(r.dest) = Len(d) + r.delta
    /\ SubSeq(r.dest, 1, slice.start) = SubSeq(d, 1, slice.start)
    /\ SubSeq(r.dest, slice.start + slice.length + r.delta + 1, Len(r.dest))
           = SubSeq(d, slice.start + slice.length + 1, Len(d))

\* the processLabel() calls on the labels of the normalized name that break
\* the frame
FrameBreaks ==
    LET d == Uts46Normalize(src)
    IN  {call \in [slice : LabelSlices(d), toASCII : BOOLEAN, stale : StaleUnits] :
            ~FrameKept(d, call.slice,
                       processLabel(d, call.slice.start, call.slice.length,
                                    call.toASCII, InfoReset, options, call.stale))}

\* C24: processLabel() on a label of dest returns the delta d of the label's
\* length, leaves the code units before and after the label as they were and
\* the label's dot at labelStart + labelLength + d, also when the label was
\* first changed in place and then replaced by a normalized or encoded copy.
ProcessLabelFrame == FrameBreaks = {}

\* The same, for the labels that processLabel() does not change in place
\* before it replaces them.
ProcessLabelFrameUnmapped ==
    \A call \in FrameBreaks :
        LET d     == Uts46Normalize(src)
            label == SubSeq(d, call.slice.start + 1, call.slice.start + call.slice.length)
        IN  \E k \in 1..Len(label) : label[k] \in {SHARP_S, ZWNJ, ZWJ}

\* ------------------------------------------------------------------------
\* A label whose Punycode decoding fails
\* ------------------------------------------------------------------------

\* how many pieces a name with an undecodable label is put together from
MaxPunycodePieces == 3

\* "xn--", "z", "-", ".", "_" and sharp s: "xn--z" and "xn---" do not decode
PunycodePieces ==
    {ACE_PREFIX, <<122>>, <<HYPHEN>>, <<DOT>>, <<95>>, <<SHARP_S>>}

\* A caller with names whose labels start with "xn--".
InitPunycode ==
    /\ src \in Joined(PunycodePieces, MaxPunycodePieces)
    /\ options \in {{}, {"USE_STD3_RULES"}}
    /\ budget = MaxCalls
    /\ InitCaller

SpecPunycode == InitPunycode /\ [][Next]_vars

\* the slices processLabel() is called on: the labels of a name, and the whole
\* string for the functions that take one label
CalledSlices(s) == LabelSlices(s) \cup {[start |-> 0, length |-> Len(s)]}

\* the code units of a slice
SliceOf(s, slice) == SubSeq(s, slice.start + 1, slice.start + slice.length)

\* the code units after "xn--"
Remainder(label) == SubSeq(label, 5, Len(label))

\* A label that starts with "xn--" and whose remainder does not decode.
DecodingFails(label) ==
    StartsWithACEPrefix(label) /\ ~StrFromPunycode(Remainder(label)).ok

\* a letter, a digit or a hyphen
IsLDH(c) == c <= 127 /\ c # DOT /\ asciiData(c) >= 0

OnlyLDH(s) == \A k \in 1..Len(s) : IsLDH(s[k])

\* what the failure branch leaves of a code unit of the remainder
AfterFailure(c, opts) ==
    IF c = DOT THEN REPLACEMENT
    ELSE IF c <= 127 /\ ~IsLDH(c) /\ "USE_STD3_RULES" \in opts THEN REPLACEMENT
    ELSE c

\* what the failure branch leaves of the label, U+FFFD after it included
LabelAfterFailure(label, opts) ==
    ACE_PREFIX \o [k \in 1..(Len(label) - 4) |-> AfterFailure(label[k + 4], opts)]
        \o (IF OnlyLDH(Remainder(label)) THEN <<REPLACEMENT>> ELSE <<>>)

\* what the failure branch adds to info.errors
ErrorsOfFailure(label) ==
    {"PUNYCODE"} \cup (IF \E k \in 5..Len(label) : label[k] = DOT
                       THEN {"LABEL_HAS_DOT"} ELSE {})

\* r is the result the failure branch is to give for the slice of d.
FailureResult(d, slice, givenInfo, opts, r) ==
    LET label == SliceOf(d, slice)
    IN  /\ r.delta = (IF OnlyLDH(Remainder(label)) THEN 1 ELSE 0)
        /\ r.dest = SubSeq(d, 1, slice.start) \o LabelAfterFailure(label, opts)
                       \o SubSeq(d, slice.start + slice.length + 1, Len(d))
        /\ r.info = [givenInfo EXCEPT !.errors = @ \cup ErrorsOfFailure(label)]

\* the values info may have when processLabel() is called
GivenInfos == {InfoReset, AddError(InfoReset, "EMPTY_LABEL")}

\* the slices of the normalized name whose decoding fails
FailingSlices ==
    {slice \in CalledSlices(Uts46Normalize(src)) :
        DecodingFails(SliceOf(Uts46Normalize(src), slice))}

\* C25: when a label starts with "xn--" and the rest does not decode,
\* processLabel() adds PUNYCODE and returns with no later check; a remainder
\* of letters, digits and hyphens gets one U+FFFD right after the label and
\* 1 is returned, otherwise 0 is returned and the length stays; a dot becomes
\* U+FFFD with LABEL_HAS_DOT, with USE_STD3_RULES every other non-LDH ASCII
\* unit becomes U+FFFD, nothing else changes, and the result does not depend
\* on what lies outside the string.
PunycodeFailureBranch ==
    \A slice \in FailingSlices, toASCII \in BOOLEAN, givenInfo \in GivenInfos, stale \in StaleUnits :
        FailureResult(Uts46Normalize(src), slice, givenInfo, options,
                      processLabel(Uts46Normalize(src), slice.start, slice.length,
                                   toASCII, givenInfo, options, stale))

\* The calls of labelToUnicode on a label whose decoding fails.
FailedLabelCalls ==
    {call \in Calls :
        /\ call.fn = "labelToUnicode"
        /\ call.from = "src"
        /\ call.errorCode = "U_ZERO_ERROR"
        /\ DecodingFails(Uts46Normalize(src))}

\* labelToUnicode returned a label of letters, digits and hyphens that does
\* not decode, with U+FFFD after it.
PunycodeFailureMarked ==
    \E call \in FailedLabelCalls :
        /\ OnlyLDH(Remainder(Uts46Normalize(src)))
        /\ call.dest.str = Uts46Normalize(src) \o <<REPLACEMENT>>
        /\ call.info.errors = {"PUNYCODE"}

\* ... and one with a dot, and one with another non-LDH character under
\* USE_STD3_RULES, with U+FFFD in their places.
PunycodeFailureReplaced ==
    \E call \in FailedLabelCalls :
        /\ "USE_STD3_RULES" \in options
        /\ \E k \in 5..Len(src) : src[k] = DOT
        /\ \E k \in 5..Len(src) : src[k] = 95
        /\ call.dest.str = LabelAfterFailure(Uts46Normalize(src), options)
        /\ call.dest.str # Uts46Normalize(src)
        /\ call.info.errors = {"PUNYCODE", "LABEL_HAS_DOT"}

\* ------------------------------------------------------------------------
\* The label loop of processUnicode
\* ------------------------------------------------------------------------

\* the loop's variables when processUnicode() enters the loop for a name
LoopStart(d) ==
    [dest |-> d, info |-> InfoReset, destLength |-> Len(d),
     labelStart |-> 0, labelLimit |-> 0]

\* ... and after k passes
LoopAfter(d, toASCII, stale, k) ==
    IF k = 0 THEN LoopStart(d)
    ELSE LabelPasses(LoopStart(d), toASCII, options, stale, k)

\* The loop is where a left-to-right walk over the labels is: destLength is
\* dest's length, the label starts at 0 or right after a dot, and no dot lies
\* between labelStart and labelLimit.
Aligned(st) ==
    /\ st.destLength = Len(st.dest)
    /\ st.labelStart <= st.labelLimit
    /\ st.labelLimit <= st.destLength
    /\ st.labelStart = 0 \/ st.dest[st.labelStart] = DOT
    /\ \A k \in (st.labelStart + 1)..st.labelLimit : st.dest[k] # DOT

\* info.errors never loses a bit from one pass to the next, nor in the call
\* for the last label.
ErrorsOnlyGrow ==
    \A toASCII \in BOOLEAN, stale \in StaleUnits :
        LET d == Uts46Normalize(src)
        IN  /\ \A k \in 1..Len(d) :
                   LoopAfter(d, toASCII, stale, k - 1).info.errors
                       \subseteq LoopAfter(d, toASCII, stale, k).info.errors
            /\ LoopAfter(d, toASCII, stale, Len(d)).info.errors
                   \subseteq LabelLoop(LoopStart(d), toASCII, options, stale).info.errors

\* The loop stays aligned with the labels of dest.
LabelsLeftToRight ==
    \A toASCII \in BOOLEAN, stale \in StaleUnits :
        LET d == Uts46Normalize(src)
        IN  /\ \A k \in 1..Len(d) : Aligned(LoopAfter(d, toASCII, stale, k))
            /\ LoopAfter(d, toASCII, stale, Len(d)).labelLimit
                   = Len(LoopAfter(d, toASCII, stale, Len(d)).dest)

\* C29: within one call of process() info.errors only gains bits, an error
\* in one label does not keep a later label from being processed, and the
\* labels are processed from left to right, each exactly once.
ErrorsAccumulateOverLabels == ErrorsOnlyGrow /\ LabelsLeftToRight

\* The same for the names without a sharp s, a ZWNJ or a ZWJ.
ErrorsAccumulateWithoutDevChars ==
    (\A k \in 1..Len(src) : src[k] \notin {SHARP_S, ZWNJ, ZWJ})
        => ErrorsAccumulateOverLabels

====
